---- MODULE Spec2Model ----
(***************************************************************************)
(* discord.js-cluster: the pool supervisor (ClusterManager), the worker    *)
(* handle (Cluster), the in-worker counterpart (ClusterClientUtil) and the *)
(* shard partitioning (Util.chunk), as state machines.                     *)
(***************************************************************************)
EXTENDS Integers, Sequences, FiniteSets, TLC

\* ------------------------------------------------------------------ bounds

\* SpecChunk: Util.chunk and clusterIdForGuildId on their own
ChunkMaxShards == 5
ChunkMaxClusters == 4
MaxGuildHigh == 5

\* ClusterManager.spawn({clusters, shards}) is called with clusters in
\* 1..MaxClusters and shards in 1..MaxShards
MaxClusters == 2
MaxShards == 2
\* children forked in one run, over all clusters
MaxForks == 3
\* messages in flight between the children and the parent, over all children
MaxInFlight == 1
\* calls of ClusterManager.spawn in one run
MaxSpawnCalls == 2
\* calls of Cluster.eval / Cluster.fetchClientValue in one run
MaxCalls == 2
\* calls of ClusterManager.respawnAll in one run
MaxRespawnAlls == 2
\* direct calls of the API (performOnClusters, broadcast, Cluster.spawn) in a run
MaxApiCalls == 2
\* calls fanned out over the whole pool in a run of SpecFanOut, SpecBroadcast
MaxFanOuts == 1
\* requests of the workers to the parent (_sFetchProp, _sEval) in a run
MaxAsks == 1
\* SpecPartition: ClusterManager.spawn({clusters, shards}) is called with
\* clusters in 1..PartMaxClusters and shards in 1..PartMaxShards
PartMaxClusters == 3
PartMaxShards == 4
\* SpecWorker: `connect` messages that start a client, `ready` events of one
\* client, and the highest shard id a `connect` message names
MaxConnects == 2
MaxReadies == 2
MaxShardId == 1

\* ------------------------------------------------------- program constants

\* spawn(timeout = 30000), and the value that means "do not wait"
DefaultTimeout == 30000
NoWait == -1
\* Infinity, as a timeout
TimeoutInfinity == 1000000000
\* ClusterManager.spawn({delay = 5500})
DefaultSpawnDelay == 5500
\* ClusterManager.respawnAll({shardDelay = 5000, delay = 500})
DefaultShardDelay == 5000
DefaultRespawnDelay == 500

\* options.mode, default 'worker'
ManagerMode == "worker"

\* the scripts and property paths used as correlation keys
Keys == {"x"}
\* the scripts handed to eval as functions: function objects, by name; no
\* string is identical (===) to one of them
Functions == {"fn"}

\* Object.entries(shardChunk): the keys of an array are the strings "0", "1", ...
ObjectEntriesKey(i) == <<"0", "1", "2", "3", "4", "5", "6", "7">>[i + 1]

\* ----------------------------------------------------------- JS helpers

Min(a, b) == IF a < b THEN a ELSE b

\* Math.ceil(a / b) for a >= 0, b > 0
MathCeilDiv(a, b) == (a + b - 1) \div b

\* [...Array(n).keys()] : the identity list 0 .. n-1
ArrayKeys(n) == [i \in 1..n |-> i - 1]

\* arr[i] with a 0-based index: <<v>> when present, <<>> for undefined
JsAt(arr, i) == IF i >= 0 /\ i < Len(arr) THEN <<arr[i + 1]>> ELSE <<>>

\* a < b and a > b on optional numbers: any comparison with undefined is false
JsLt(a, b) == a # <<>> /\ b # <<>> /\ a[1] < b[1]
JsGt(a, b) == a # <<>> /\ b # <<>> /\ a[1] > b[1]

\* arr.splice(0, n): the removed head and what is left in arr
SpliceHead_offByOne(arr, n) == SubSeq(arr, 1, Min(n + 1, Len(arr)))
SpliceHead(arr, n) == SubSeq(arr, 1, Min(n, Len(arr)))
SpliceRest(arr, n) == SubSeq(arr, Min(n, Len(arr)) + 1, Len(arr))

\* ------------------------------------------------------------- Util.chunk

\* the step of the loop of Util.chunk: Math.ceil(dom), dom = arr.length / size
ChunkStepSize_one(len, size) == 1
ChunkStepSize(len, size) == MathCeilDiv(len, size)

RECURSIVE ChunkLoop(_, _, _)
ChunkLoop(arr, step, result) ==
  IF Len(arr) > 0
    THEN ChunkLoop(SpliceRest(arr, step), step, Append(result, SpliceHead(arr, step)))
    ELSE result

\* what the loop leaves in its argument: splice consumes it
RECURSIVE ChunkLeft(_, _)
ChunkLeft(arr, step) ==
  IF Len(arr) > 0 THEN ChunkLeft(SpliceRest(arr, step), step) ELSE arr

Util_chunk(arr, size) == ChunkLoop(arr, ChunkStepSize(Len(arr), size), <<>>)
Util_chunk_arr(arr, size) == ChunkLeft(arr, ChunkStepSize(Len(arr), size))

\* ------------------------------------------- ClusterClientUtil (router)

ShiftBits == 22

\* Number(BigInt(guildId) >> 22n) % shardCount
ShardForGuild(guildId, shardCount) == (guildId \div (2 ^ ShiftBits)) % shardCount

\* the predicate handed to findIndex
ChunkHolds(shardList, shard) ==
  /\ JsLt(JsAt(shardList, 0), <<shard>>)
  /\ JsGt(JsAt(shardList, Len(shardList)), <<shard>>)

\* Array.prototype.findIndex: the first 0-based index that satisfies, or -1
FindIndex(chunks, shard) ==
  LET hits == {i \in 1..Len(chunks) : ChunkHolds(chunks[i], shard)}
  IN  IF hits = {} THEN 0 - 1
      ELSE (CHOOSE i \in hits : \A j \in hits : i <= j) - 1

\* the result of the call: the cluster id, or the error thrown
clusterIdForGuildId(guildId, clusterCount, shardCount) ==
  LET shard == ShardForGuild(guildId, shardCount)
      cluster == FindIndex(Util_chunk(ArrayKeys(shardCount), clusterCount), shard)
  IN  IF shard < 0 THEN [ok |-> FALSE, val |-> shard, err |-> "CLUSTER_SHARD_MISCALCULATION"]
      ELSE IF cluster < 0
        THEN [ok |-> FALSE, val |-> cluster, err |-> "CLUSTER_CLUSTER_MISCALCULATION"]
        ELSE [ok |-> TRUE, val |-> cluster, err |-> ""]

\* ------------------------------------------------------------------ state

VARIABLES
  cShards,        \* SpecChunk: the shard count of the call
  cSize,          \* SpecChunk: the cluster count of the call
  cGuild,         \* SpecChunk: the guild id routed
  cArr,           \* SpecChunk: the array handed to Util.chunk
  cResult,        \* SpecChunk: what Util.chunk returned
  cDone,          \* SpecChunk: Util.chunk has returned
  cRoute,         \* SpecChunk: what clusterIdForGuildId returned, once called
  shardList,      \* manager.shardList: [auto, list]
  totalShards,    \* manager.totalShards, 0 for 'auto'
  clusterList,    \* manager.clusterList: [auto, list]
  totalClusters,  \* manager.totalClusters, 0 for 'auto'
  clusterRespawn, \* manager.clusterRespawn
  clusters,       \* manager.clusters, in insertion order: the Cluster objects
  children,       \* every child process/worker forked so far
  promises,       \* the pending results handed out by spawn, eval, fetchClientValue
  ms,             \* the running call of ClusterManager.spawn: its loop
  msCalls,        \* the result of each call of ClusterManager.spawn
  rs,             \* the calls of Cluster.respawn
  ras,            \* the calls of ClusterManager.respawnAll
  calls,          \* the calls of Cluster.eval / fetchClientValue, with what each returned
  last,           \* the latest direct call of the API, with what it returned
  emitted         \* the latest message received while listeners recorded the events of
                  \* the Clusters, and the events emitted while it was handled
  ,
  wk              \* SpecWorker: the Cluster object inside one worker process
                  \* (sharding/cluster.js) and the clients it created

chunkVars == <<cShards, cSize, cGuild, cArr, cResult, cDone, cRoute>>
managerVars == <<shardList, totalShards, clusterList, totalClusters, clusterRespawn>>
poolVars == <<clusters, children, promises, ms, msCalls, rs, ras, calls, last, emitted>>

workerVars == <<wk>>

vars == <<chunkVars, managerVars, poolVars, workerVars>>

\* --------------------------------------------------------------- records

Auto == [auto |-> TRUE, list |-> <<>>]
Listed(l) == [auto |-> FALSE, list |-> l]

\* what a call returned: a thrown error, a plain value (promise = 0) or a promise
NoRet == [thrown |-> FALSE, err |-> "", promise |-> 0, val |-> 0]
Thrown(e) == [thrown |-> TRUE, err |-> e, promise |-> 0, val |-> 0]
Returned(p, v) == [thrown |-> FALSE, err |-> "", promise |-> p, val |-> v]

\* the latest direct call: its number, the method, its arguments (the cluster
\* or target, -1 when omitted; the timeout), and what it returned
NoCall ==
  [n |-> 0, op |-> "", target |-> 0 - 1, timeout |-> 0,
   thrown |-> FALSE, err |-> "", promise |-> 0, val |-> 0]

NoneHeard == [msg |-> <<>>, events |-> <<>>]

\* new Cluster(manager, id, shards)
NewCluster(id, shards) ==
  [id |-> id, shards |-> shards, env |-> shards, ready |-> FALSE, child |-> 0,
   evals |-> {}, fetches |-> {}, waiters |-> {}, spawns |-> 0, deaths |-> 0]

\* fork(): a running child with the message and exit listeners of spawn attached
NewChild(c, env) ==
  [owner |-> c, env |-> env, alive |-> TRUE, exited |-> FALSE, exitL |-> TRUE,
   out |-> <<>>, inb |-> <<>>, listeners |-> {}]

NewPromise(kind, c, ch, key) ==
  [kind |-> kind, state |-> "pending", val |-> 0, err |-> "",
   cluster |-> c, child |-> ch, key |-> key, auto |-> FALSE, failing |-> FALSE,
   parts |-> <<>>, vals |-> <<>>, caught |-> FALSE, tag |-> "", target |-> 0 - 1]

Msg(tags, key, err) ==
  [tags |-> tags, key |-> key, err |-> err, result |-> 0,
   shardDelay |-> 0, respawnDelay |-> 0, timeout |-> 0,
   target |-> 0 - 1, results |-> <<>>, error |-> "", nil |-> FALSE]

MsIdle ==
  [pc |-> "idle", call |-> 0, chunks |-> <<>>, i |-> 1, awaitP |-> 0,
   delayPending |-> FALSE, delays |-> 0, delay |-> 0, timeout |-> 0, err |-> "",
   ps |-> <<>>]

\* the program state as one value, so that a handler is a function of it;
\* `ret` is what the handler returns, `emits` the events it emits, `fails` the
\* clusters whose writes to the child fail while it runs, `heard` whether
\* listeners record the events, `msg` the message being handled
World ==
  [shardList |-> shardList, totalShards |-> totalShards,
   clusterList |-> clusterList, totalClusters |-> totalClusters,
   clusterRespawn |-> clusterRespawn,
   clusters |-> clusters, children |-> children, promises |-> promises,
   ms |-> ms, msCalls |-> msCalls, rs |-> rs, ras |-> ras, calls |-> calls,
   last |-> last, ret |-> NoRet, emits |-> <<>>, fails |-> {}, heard |-> FALSE,
   msg |-> <<>>]

\* the handler's result, taken as a value, becomes the next state
Commit(world) ==
  \E w \in {world} :
    /\ Len(w.children) <= MaxForks
    /\ shardList' = w.shardList
    /\ totalShards' = w.totalShards
    /\ clusterList' = w.clusterList
    /\ totalClusters' = w.totalClusters
    /\ clusterRespawn' = w.clusterRespawn
    /\ clusters' = w.clusters
    /\ children' = w.children
    /\ promises' = w.promises
    /\ ms' = w.ms
    /\ msCalls' = w.msCalls
    /\ rs' = w.rs
    /\ ras' = w.ras
    /\ calls' = w.calls
    /\ last' = w.last
    /\ emitted' = IF w.heard THEN [msg |-> w.msg, events |-> w.emits] ELSE emitted
    /\ UNCHANGED <<chunkVars, workerVars>>

MinOf(S) == CHOOSE x \in S : \A y \in S : x <= y

RECURSIVE SumLen(_, _)
SumLen(cs, i) == IF i > Len(cs) THEN 0 ELSE Len(cs[i].out) + Len(cs[i].inb) + SumLen(cs, i + 1)

\* the messages in flight, both ways
InFlight == SumLen(children, 1)

\* ---------------------------------------------------------------- promises

\* resolve / reject of a promise: only the first settlement counts
PromiseResolve(w, p, v) ==
  IF w.promises[p].state = "pending"
    THEN [w EXCEPT !.promises[p].state = "resolved", !.promises[p].val = v]
    ELSE w

PromiseReject(w, p, e) ==
  IF w.promises[p].state = "pending"
    THEN [w EXCEPT !.promises[p].state = "rejected", !.promises[p].err = e]
    ELSE w

\* the state of what an await waits for: a plain value is resolved at once
AwaitState(w, p) == IF p = 0 THEN "resolved" ELSE w.promises[p].state
AwaitErr(w, p) == IF p = 0 THEN "" ELSE w.promises[p].err

\* ------------------------------------------------------------ Cluster.spawn

\* cleanup(): clearTimeout, and off('ready' | 'disconnect' | 'death')
SpawnCleanup(w, c, p) == [w EXCEPT !.clusters[c].waiters = @ \ {p}]

OnReady(w, c, p) == PromiseResolve(SpawnCleanup(w, c, p), p, w.promises[p].child)
OnDisconnect(w, c, p) == PromiseReject(SpawnCleanup(w, c, p), p, "CLUSTER_READY_DISCONNECTED")
OnDeath(w, c, p) == PromiseReject(SpawnCleanup(w, c, p), p, "CLUSTER_READY_DIED")
OnTimeout_noReject(w, c, p) == SpawnCleanup(w, c, p)
OnTimeout(w, c, p) == PromiseReject(SpawnCleanup(w, c, p), p, "CLUSTER_READY_TIMEOUT")

\* this.emit(ev): the once-listeners that the pending spawn calls registered
EmitOne(w, c, ev, p) ==
  CASE ev = "ready" -> OnReady(w, c, p)
    [] ev = "disconnect" -> OnDisconnect(w, c, p)
    [] ev = "death" -> OnDeath(w, c, p)
    [] OTHER -> w

RECURSIVE EmitTo(_, _, _, _)
EmitTo(w, c, ev, ps) ==
  IF ps = {} THEN w
  ELSE EmitTo(EmitOne(w, c, ev, MinOf(ps)), c, ev, ps \ {MinOf(ps)})

Emit(w, c, ev) ==
  EmitTo([w EXCEPT !.emits = Append(@, <<c, ev>>)], c, ev, w.clusters[c].waiters)

ExistsError_otherName == "CLUSTER_NO_CHILD_EXISTS"
ExistsError == IF ManagerMode = "process" THEN "CLUSTER_PROCESS_EXISTS" ELSE "CLUSTER_WORKER_EXISTS"

Cluster_spawn(w, c, timeout) ==
  IF w.clusters[c].child # 0 THEN [w EXCEPT !.ret = Thrown(ExistsError)]
  ELSE
    LET ch == Len(w.children) + 1
        w1 == [w EXCEPT !.children = Append(@, NewChild(c, w.clusters[c].env)),
                        !.clusters[c].child = ch,
                        !.clusters[c].spawns = @ + 1,
                        !.clusters[c].evals = {},
                        !.clusters[c].fetches = {},
                        !.emits = Append(@, <<c, "spawn">>)]
        p == Len(w1.promises) + 1
    IN  IF timeout = NoWait \/ timeout = TimeoutInfinity
          THEN [w1 EXCEPT !.ret = Returned(0, ch)]
        ELSE [w1 EXCEPT !.promises = Append(@, NewPromise("spawn", c, ch, "")),
                        !.clusters[c].waiters = @ \cup {p},
                        !.ret = Returned(p, ch)]

\* ------------------------------------------- Cluster._handleExit and kill

\* this.spawn().catch(err => this.emit('error', err)): the promise is marked, and
\* its rejection is the error event
SpawnAfterExit(w, c) ==
  LET w1 == Cluster_spawn(w, c, DefaultTimeout)
  IN  IF w1.ret.thrown \/ w1.ret.promise = 0 THEN w1
      ELSE [w1 EXCEPT !.promises[w1.ret.promise].auto = TRUE]

Cluster_handleExit_never(w, c, respawn) ==
  LET w1 == Emit(w, c, "death")
  IN  [w1 EXCEPT !.clusters[c].deaths = @ + 1,
                 !.clusters[c].ready = FALSE,
                 !.clusters[c].child = 0,
                 !.clusters[c].evals = {},
                 !.clusters[c].fetches = {}]

Cluster_handleExit(w, c, respawn) ==
  LET w1 == Emit(w, c, "death")
      w2 == [w1 EXCEPT !.clusters[c].deaths = @ + 1,
                       !.clusters[c].ready = FALSE,
                       !.clusters[c].child = 0,
                       !.clusters[c].evals = {},
                       !.clusters[c].fetches = {}]
  IN  IF respawn THEN [SpawnAfterExit(w2, c) EXCEPT !.ret = NoRet] ELSE w2

\* kill(): with no child, child.removeListener throws a TypeError
Cluster_kill_keepListener(w, c) ==
  LET ch == w.clusters[c].child
  IN  IF ch = 0 THEN [w EXCEPT !.ret = Thrown("TypeError")]
      ELSE [Cluster_handleExit([w EXCEPT !.children[ch].alive = FALSE], c, FALSE)
              EXCEPT !.ret = NoRet]

Cluster_kill(w, c) ==
  LET ch == w.clusters[c].child
  IN  IF ch = 0 THEN [w EXCEPT !.ret = Thrown("TypeError")]
      ELSE [Cluster_handleExit(
              [w EXCEPT !.children[ch].exitL = FALSE, !.children[ch].alive = FALSE],
              c, FALSE) EXCEPT !.ret = NoRet]

\* ---------------------------------------------------------- Cluster.respawn

\* return this.spawn(timeout), the last statement of respawn
RespawnSpawn(w, r) ==
  LET w1 == Cluster_spawn(w, w.rs[r].cluster, w.rs[r].timeout)
  IN  IF w1.ret.thrown
        THEN [w1 EXCEPT !.rs[r].pc = "failed", !.rs[r].err = w1.ret.err, !.ret = NoRet]
        ELSE [w1 EXCEPT !.rs[r].pc = "spawned", !.rs[r].p = w1.ret.promise, !.ret = NoRet]

\* async respawn({ delay, timeout }): kill, then the delay, then spawn
Cluster_respawn(w, c, delay, timeout) ==
  LET r == Len(w.rs) + 1
      rec == [cluster |-> c, pc |-> "delay", timeout |-> timeout, p |-> 0, err |-> ""]
      w1 == Cluster_kill(w, c)
  IN  IF w1.ret.thrown
        THEN [w EXCEPT !.rs = Append(@, [rec EXCEPT !.pc = "failed", !.err = w1.ret.err])]
      ELSE IF delay > 0
        THEN [w1 EXCEPT !.rs = Append(@, rec)]
      ELSE RespawnSpawn([w1 EXCEPT !.rs = Append(@, rec)], r)

\* the state of the promise a call of respawn returned
RsState(w, r) ==
  CASE w.rs[r].pc = "failed" -> "rejected"
    [] w.rs[r].pc = "delay" -> "pending"
    [] OTHER -> AwaitState(w, w.rs[r].p)

RsErr(w, r) == IF w.rs[r].pc = "failed" THEN w.rs[r].err ELSE AwaitErr(w, w.rs[r].p)

\* ------------------------------------------------ ClusterManager.respawnAll

\* one turn of the for loop of respawnAll, up to its await
RespawnAllLoop(w, a) ==
  LET ra == w.ras[a]
  IN  IF ra.pos > Len(w.clusters) THEN [w EXCEPT !.ras[a].pc = "resolved"]
      ELSE
        LET w1 == Cluster_respawn(w, ra.pos, ra.delay, ra.timeout)
            s == ra.s + 1
        IN  [w1 EXCEPT !.ras[a].pc = "await",
                       !.ras[a].cur = Len(w1.rs),
                       !.ras[a].s = s,
                       !.ras[a].pos = ra.pos + 1,
                       !.ras[a].delayPending = (s < Len(w1.clusters) /\ ra.shardDelay > 0),
                       !.ras[a].delays = @ + (IF s < Len(w1.clusters) /\ ra.shardDelay > 0 THEN 1 ELSE 0)]

ClusterManager_respawnAll(w, shardDelay, delay, timeout) ==
  LET a == Len(w.ras) + 1
      rec == [pc |-> "await", pos |-> 1, s |-> 0, cur |-> 0, delayPending |-> FALSE,
              delays |-> 0, shardDelay |-> shardDelay, delay |-> delay,
              timeout |-> timeout, err |-> ""]
  IN  RespawnAllLoop([w EXCEPT !.ras = Append(@, rec)], a)

RespawnAllResumable(w, a) ==
  /\ w.ras[a].pc = "await"
  /\ \/ RsState(w, w.ras[a].cur) = "rejected"
     \/ RsState(w, w.ras[a].cur) = "resolved" /\ ~w.ras[a].delayPending

\* await Promise.all(promises) returns or throws
RespawnAllResume(w, a) ==
  IF RsState(w, w.ras[a].cur) = "rejected"
    THEN [w EXCEPT !.ras[a].pc = "rejected", !.ras[a].err = RsErr(w, w.ras[a].cur)]
    ELSE RespawnAllLoop(w, a)

\* --------------------------------------------------- ClusterManager.spawn

\* this.clusters.reduce(cluster => cluster.shards.length, 0): Collection.reduce
\* calls fn(accumulator, value), so the callback reads .shards.length of the
\* accumulator 0 and throws once the collection holds a cluster
ReduceShardSize(w) ==
  IF Len(w.clusters) = 0 THEN Returned(0, 0) ELSE Thrown("TypeError")

\* the loop resumes only when the awaited spawn has settled
SpawnAwaited_none(w) == 0
SpawnAwaited(w) == w.ms.awaitP

\* if (delay > 0 && this.clusters.size !== this.clusterList.length): a delay
\* joins the spawn of every worker but the last of the list
SpawnDelayDue_always(w, delay) == delay > 0
SpawnDelayDue(w, delay) == delay > 0 /\ Len(w.clusters) # Len(w.clusterList.list)

\* one turn of the for loop of spawn, up to its await
ManagerSpawnLoop(w) ==
  LET m == w.ms
  IN  IF m.i > Len(m.chunks)
        THEN [w EXCEPT !.ms.pc = "resolved", !.msCalls[m.call].state = "resolved"]
      ELSE
        LET c == Len(w.clusters) + 1
            w1 == [w EXCEPT !.clusters =
                     Append(@, NewCluster(ObjectEntriesKey(m.i - 1), m.chunks[m.i]))]
            w2 == Cluster_spawn(w1, c, m.timeout)
            dp == SpawnDelayDue(w2, m.delay)
        IN  [w2 EXCEPT !.ms.pc = "await",
                       !.ms.awaitP = w2.ret.promise,
                       !.ms.ps = Append(@, w2.ret.promise),
                       !.ms.delayPending = dp,
                       !.ms.delays = @ + (IF dp THEN 1 ELSE 0),
                       !.ms.i = m.i + 1,
                       !.ret = NoRet]

ManagerSpawnResumable_onResolved(w) ==
  /\ w.ms.pc = "await"
  /\ AwaitState(w, SpawnAwaited(w)) = "resolved" /\ ~w.ms.delayPending

ManagerSpawnResumable(w) ==
  /\ w.ms.pc = "await"
  /\ \/ AwaitState(w, SpawnAwaited(w)) = "rejected"
     \/ AwaitState(w, SpawnAwaited(w)) = "resolved" /\ ~w.ms.delayPending

ManagerSpawnResume(w) ==
  IF AwaitState(w, SpawnAwaited(w)) = "rejected"
    THEN [w EXCEPT !.ms.pc = "rejected",
                   !.ms.delayPending = FALSE,
                   !.ms.err = AwaitErr(w, w.ms.awaitP),
                   !.msCalls[w.ms.call].state = "rejected",
                   !.msCalls[w.ms.call].err = AwaitErr(w, w.ms.awaitP)]
    ELSE ManagerSpawnLoop(w)

\* if (clusters > shardChunk.length) clusters = shardChunk.length
NeededClusters_asAsked(clustersArg, shardChunk) == clustersArg
NeededClusters(clustersArg, shardChunk) ==
  IF clustersArg > Len(shardChunk) THEN Len(shardChunk) ELSE clustersArg

ClusterManager_spawn(w, clustersArg, shardsArg, delay, timeout) ==
  LET call == Len(w.msCalls) + 1
      w0 == [w EXCEPT !.msCalls = Append(@, [state |-> "pending", err |-> "",
                                             clusters |-> clustersArg, shards |-> shardsArg,
                                             after |-> w.ms.pc,
                                             sizeBefore |-> Len(w.clusters),
                                             forksBefore |-> Len(w.children)])]
      Fail(ww, e) == [ww EXCEPT !.msCalls[call].state = "rejected", !.msCalls[call].err = e]
      shardSize == ReduceShardSize(w0)
      sl == IF w0.shardList.auto \/ w0.totalShards = 0 \/ w0.totalShards # shardsArg
              THEN Listed(ArrayKeys(shardsArg)) ELSE w0.shardList
      w1 == [w0 EXCEPT !.shardList = sl, !.totalShards = shardsArg]
      shardChunk == Util_chunk(sl.list, clustersArg)
      w2 == [w1 EXCEPT !.shardList = Listed(Util_chunk_arr(sl.list, clustersArg))]
      n == NeededClusters(clustersArg, shardChunk)
      cl == IF w2.clusterList.auto \/ w2.totalClusters = 0 \/ w2.totalClusters # n
              THEN Listed(ArrayKeys(n)) ELSE w2.clusterList
      w3 == [w2 EXCEPT !.clusterList = cl, !.totalClusters = n]
  IN  IF shardsArg < 1 THEN Fail(w0, "CLIENT_INVALID_OPTION")
      ELSE IF shardSize.thrown THEN Fail(w0, shardSize.err)
      ELSE IF shardSize.val >= shardsArg THEN Fail(w0, "SHARDING_ALREADY_SPAWNED")
      ELSE IF \E i \in 1..Len(sl.list) : sl.list[i] >= shardsArg
        THEN Fail(w1, "CLIENT_INVALID_OPTION")
      ELSE IF clustersArg < 1 THEN Fail(w1, "CLIENT_INVALID_OPTION")
      ELSE IF Len(w2.clusters) >= n THEN Fail(w2, "CLUSTER_ALREADY_SPAWNED")
      ELSE IF \E i \in 1..Len(cl.list) : cl.list[i] >= n
        THEN Fail(w3, "CLIENT_INVALID_OPTION")
      ELSE ManagerSpawnLoop(
             [w3 EXCEPT !.ms = [MsIdle EXCEPT !.call = call, !.chunks = shardChunk,
                                              !.delay = delay, !.timeout = timeout]])

\* ------------------------------------------------------------- Promise.all

\* Promise.all(parts): a promise over the promises `parts`
PromiseAll(w, op, parts) ==
  LET p == Len(w.promises) + 1
  IN  [w EXCEPT !.promises = Append(@, [NewPromise("all", 0, 0, op) EXCEPT !.parts = parts]),
                !.ret = Returned(p, 0)]

RejectedParts(w, p) ==
  {i \in 1..Len(w.promises[p].parts) : w.promises[w.promises[p].parts[i]].state = "rejected"}

AllResumable_allSettled(w, p) ==
  /\ w.promises[p].kind = "all"
  /\ w.promises[p].state = "pending"
  /\ \A i \in 1..Len(w.promises[p].parts) :
       w.promises[w.promises[p].parts[i]].state # "pending"

AllResumable(w, p) ==
  /\ w.promises[p].kind = "all"
  /\ w.promises[p].state = "pending"
  /\ \/ RejectedParts(w, p) # {}
     \/ \A i \in 1..Len(w.promises[p].parts) :
          w.promises[w.promises[p].parts[i]].state = "resolved"

\* the reaction of Promise.all: the first rejection rejects it, the last
\* resolution resolves it with the values in the order of `parts`
AllResume(w, p) ==
  LET parts == w.promises[p].parts
  IN  IF RejectedParts(w, p) # {}
        THEN [w EXCEPT !.promises[p].state = "rejected",
                       !.promises[p].err = w.promises[parts[MinOf(RejectedParts(w, p))]].err,
                       !.promises[p].val = w.promises[parts[MinOf(RejectedParts(w, p))]].val]
        ELSE [w EXCEPT !.promises[p].state = "resolved",
                       !.promises[p].vals = [i \in 1..Len(parts) |-> w.promises[parts[i]].val]]

\* ------------------------------------- Cluster.eval / fetchClientValue

MapHas(table, key) == \E e \in table : e[1] = key
MapGet(table, key) == (CHOOSE e \in table : e[1] = key)[2]
MapDelete(table, key) == {e \in table : e[1] # key}

KindTag(kind) == IF kind = "eval" THEN "_eval" ELSE "_fetchProp"

\* const _eval = typeof script === 'function' ? `(${script})(this)` : script
EvalText(script) == IF script \in Functions THEN "(" \o script \o ")(this)" ELSE script

\* what the request carries: { _eval } or { _fetchProp: prop }
RequestKey(kind, key) == IF kind = "eval" THEN EvalText(key) ELSE key

Table(w, c, kind) == IF kind = "eval" THEN w.clusters[c].evals ELSE w.clusters[c].fetches

SetTable(w, c, kind, t) ==
  IF kind = "eval" THEN [w EXCEPT !.clusters[c].evals = t]
  ELSE [w EXCEPT !.clusters[c].fetches = t]

\* the eval / fetch promises of cluster c under `key` that are still pending
PendingFor(w, c, kind, key) ==
  {p \in 1..Len(w.promises) :
     /\ w.promises[p].kind = kind /\ w.promises[p].cluster = c
     /\ w.promises[p].key = key /\ w.promises[p].state = "pending"}

\* Promise.reject(new Error('CLUSTER_NO_CHILD_EXISTS', this.id))
NoChildRejection_pending(kind, c, key) == NewPromise(kind, c, 0, key)

NoChildRejection(kind, c, key) ==
  [NewPromise(kind, c, 0, key) EXCEPT !.state = "rejected", !.err = "CLUSTER_NO_CHILD_EXISTS"]

\* eval(script) and fetchClientValue(prop); `ok` is whether child.send will
\* report success to its callback
Cluster_call(w, c, kind, key, ok) ==
  LET ch == w.clusters[c].child
      p == Len(w.promises) + 1
      before == PendingFor(w, c, kind, key)
      Note(ww, q, sent) ==
        [ww EXCEPT !.calls = Append(@, [cluster |-> c, kind |-> kind, key |-> key,
                                        promise |-> q, sent |-> sent, child |-> ch,
                                        pendingBefore |-> before])]
  IN  IF ch = 0
        THEN Note([w EXCEPT !.promises = Append(@, NoChildRejection(kind, c, key))], p, FALSE)
      ELSE IF MapHas(Table(w, c, kind), key)
        THEN Note(w, MapGet(Table(w, c, kind), key), FALSE)
      ELSE
        LET w1 == [w EXCEPT !.promises =
                      Append(@, [NewPromise(kind, c, ch, key) EXCEPT !.failing = ~ok]),
                            !.children[ch].listeners = @ \cup {p},
                            !.children[ch].inb =
                              IF ok THEN Append(@, Msg({KindTag(kind)}, RequestKey(kind, key), FALSE))
                              ELSE @]
        IN  Note(SetTable(w1, c, kind, Table(w1, c, kind) \cup {<<key, p>>}), p, TRUE)

\* the catch of this.send(...): the write failed
Cluster_sendFailed(w, p) ==
  LET c == w.promises[p].cluster
      ch == w.promises[p].child
      kind == w.promises[p].kind
      w1 == [w EXCEPT !.children[ch].listeners = @ \ {p}, !.promises[p].auto = FALSE]
      w2 == SetTable(w1, c, kind, MapDelete(Table(w1, c, kind), w.promises[p].key))
  IN  PromiseReject(w2, p, "SEND_FAILED")

\* the listener a call attached to its child, on a message of that child
CallListener_resolves(w, p, m) ==
  LET c == w.promises[p].cluster
      ch == w.promises[p].child
      kind == w.promises[p].kind
  IN  IF ~(KindTag(kind) \in m.tags /\ m.key = w.promises[p].key) THEN w
      ELSE PromiseResolve(
             SetTable([w EXCEPT !.children[ch].listeners = @ \ {p}], c, kind,
                      MapDelete(Table(w, c, kind), w.promises[p].key)),
             p, m.result)

CallListener(w, p, m) ==
  LET c == w.promises[p].cluster
      ch == w.promises[p].child
      kind == w.promises[p].kind
  IN  IF ~(KindTag(kind) \in m.tags /\ m.key = w.promises[p].key) THEN w
      ELSE
        LET w1 == [w EXCEPT !.children[ch].listeners = @ \ {p}]
            w2 == SetTable(w1, c, kind, MapDelete(Table(w1, c, kind), w.promises[p].key))
        IN  IF kind = "eval" /\ m.err
              THEN [PromiseReject(w2, p, "EVAL_ERROR") EXCEPT !.promises[p].val = m.result]
            ELSE PromiseResolve(w2, p, m.result)

RECURSIVE CallListeners(_, _, _)
CallListeners(w, ps, m) ==
  IF ps = {} THEN w
  ELSE CallListeners(CallListener(w, MinOf(ps), m), ps \ {MinOf(ps)}, m)

\* ------------------------------------- ClusterManager._performOnClusters

\* 'auto'.length is 4
ListLength_one(l) == 1
ListLength(l) == IF l.auto THEN 4 ELSE Len(l.list)

\* a key of manager.clusters is a number unless it is one of the strings that
\* Object.entries produced
IsNumberKey(id) == id \notin {ObjectEntriesKey(i) : i \in 0..7}

\* this.clusters.has(cluster) for a number: SameValueZero, so that a number
\* equals no string
ClustersHas(w, target) ==
  \E c \in 1..Len(w.clusters) : IsNumberKey(w.clusters[c].id) /\ w.clusters[c].id = target

ClustersGet(w, target) ==
  CHOOSE c \in 1..Len(w.clusters) : IsNumberKey(w.clusters[c].id) /\ w.clusters[c].id = target

\* the promise the latest cluster.eval / fetchClientValue returned
CallRet(w) == w.calls[Len(w.calls)].promise

\* Promise.reject(new Error(e))
RejectNow(w, op, e) ==
  LET p == Len(w.promises) + 1
  IN  [w EXCEPT !.promises = Append(@, [NewPromise(op, 0, 0, "") EXCEPT
                                          !.state = "rejected", !.err = e]),
                !.ret = Returned(p, 0)]

\* for (const cl of this.clusters.values()) promises.push(cl[method](...args));
\* `fails` are the clusters whose write to the child will fail
RECURSIVE PerformEach(_, _, _, _, _, _)
PerformEach(w, kind, key, fails, c, parts) ==
  IF c > Len(w.clusters) THEN PromiseAll(w, "perform", parts)
  ELSE LET w1 == Cluster_call(w, c, kind, key, c \notin fails)
       IN  PerformEach(w1, kind, key, fails, c + 1, Append(parts, CallRet(w1)))

\* _performOnClusters(method, args, cluster): target -1 is `cluster` omitted
ClusterManager_performOnClusters(w, kind, key, target, fails) ==
  IF Len(w.clusters) = 0 THEN RejectNow(w, "perform", "CLUSTER_NO_CLUSTERS")
  ELSE IF target >= 0
    THEN IF ClustersHas(w, target)
           THEN LET c == ClustersGet(w, target)
                    w1 == Cluster_call(w, c, kind, key, c \notin fails)
                IN  [w1 EXCEPT !.ret = Returned(CallRet(w1), 0)]
           ELSE RejectNow(w, "perform", "CLUSTER_CLUSTER_NOT_FOUND")
  ELSE IF Len(w.clusters) # ListLength(w.clusterList)
    THEN RejectNow(w, "perform", "CLUSTER_IN_PROCESS")
  ELSE PerformEach(w, kind, key, fails, 1, <<>>)

\* the record of a direct call and of what it returned
Noted(w, op, target, timeout) ==
  [w EXCEPT !.last = [n |-> w.last.n + 1, op |-> op, target |-> target,
                      timeout |-> timeout, thrown |-> w.ret.thrown, err |-> w.ret.err,
                      promise |-> w.ret.promise, val |-> w.ret.val],
            !.ret = NoRet]

\* ------------------------------------- Cluster.send / ClusterManager.broadcast

\* send(message) with no child: child.send throws a TypeError inside the
\* executor of the promise, which rejects it
SendNoChild_resolved(w, c) ==
  [w EXCEPT !.promises = Append(@, [NewPromise("send", c, 0, "") EXCEPT
                                      !.state = "resolved", !.val = c])]

SendNoChild(w, c) ==
  [w EXCEPT !.promises = Append(@, [NewPromise("send", c, 0, "") EXCEPT
                                      !.state = "rejected", !.err = "TypeError"])]

\* cluster.send(message); `ok` is whether child.send will report success
Cluster_sendMessage(w, c, m, ok) ==
  LET ch == w.clusters[c].child
      p == Len(w.promises) + 1
      w1 == IF ch = 0 THEN SendNoChild(w, c)
            ELSE [w EXCEPT !.promises =
                             Append(@, [NewPromise("send", c, ch, "") EXCEPT !.failing = ~ok]),
                           !.children[ch].inb = IF ok THEN Append(@, m) ELSE @]
  IN  [w1 EXCEPT !.ret = Returned(p, 0)]

Cluster_send(w, c, ok) == Cluster_sendMessage(w, c, Msg({"_message"}, "", FALSE), ok)

\* the callback of child.send: err => reject(err), else resolve(this)
Cluster_sendCallback_resolves(w, p) == PromiseResolve(w, p, w.promises[p].cluster)

Cluster_sendCallback(w, p) ==
  IF w.promises[p].failing THEN PromiseReject(w, p, "SEND_FAILED")
  ELSE PromiseResolve(w, p, w.promises[p].cluster)

\* for (const cluster of this.clusters.values()) promises.push(cluster.send(message))
RECURSIVE BroadcastEach(_, _, _, _)
BroadcastEach(w, fails, c, parts) ==
  IF c > Len(w.clusters) THEN PromiseAll(w, "broadcast", parts)
  ELSE LET w1 == Cluster_send(w, c, c \notin fails)
       IN  BroadcastEach(w1, fails, c + 1, Append(parts, w1.ret.promise))

ClusterManager_broadcast(w, fails) == BroadcastEach(w, fails, 1, <<>>)

\* ------------------------------------------------- reactions (then, catch)

\* this.spawn().catch(err => this.emit('error', err)) in _handleExit: the
\* automatic spawn was rejected and its catch has not run yet
ErrorResumable(w, p) ==
  /\ w.promises[p].auto
  /\ w.promises[p].state = "rejected"
  /\ ~w.promises[p].caught

ErrorResume(w, p) ==
  [w EXCEPT !.promises[p].caught = TRUE,
            !.emits = Append(@, <<w.promises[p].cluster, "error">>)]

\* fanOut.then(results => this.send({...resp, _result: results}),
\*             err => this.send({...resp, _error: Util.makePlainError(err)}))
\* in _handleMessage: the promise of then, over the promise of the fan-out;
\* it keeps the child that the Cluster had when the request was taken
Then(w, c, tag, key, target) ==
  [w EXCEPT !.promises = Append(@, [NewPromise("respond", c, w.clusters[c].child, key) EXCEPT
                                      !.parts = <<w.ret.promise>>,
                                      !.tag = tag, !.target = target]),
            !.ret = NoRet]

RespondResumable(w, q) ==
  /\ w.promises[q].kind = "respond"
  /\ w.promises[q].state = "pending"
  /\ w.promises[w.promises[q].parts[1]].state # "pending"

\* the response: the tags of the request, and the results or the error
Response(w, q) ==
  LET src == w.promises[w.promises[q].parts[1]]
      m == [Msg({w.promises[q].tag}, w.promises[q].key, src.state = "rejected") EXCEPT
              !.target = w.promises[q].target]
  IN  IF src.state = "rejected" THEN [m EXCEPT !.error = src.err]
      ELSE [m EXCEPT !.result = src.val, !.results = src.vals]

\* the reaction runs this.send(response) and resolves the promise of then with
\* the promise of send, which it follows from then on
RespondResume(w, q) ==
  LET c == w.promises[q].cluster
      w1 == Cluster_sendMessage(w, c, Response(w, q), c \notin w.fails)
  IN  [w1 EXCEPT !.promises[q].state = "resolved",
                 !.promises[q].val = w1.ret.promise,
                 !.ret = NoRet]

\* ------------------------------------------------------------- microtasks

\* the continuations that run before the next event: every await whose promise
\* has settled resumes, in turn, until none is left
RECURSIVE Settle(_)
SettleFrom(w) ==
  IF ManagerSpawnResumable(w) THEN Settle(ManagerSpawnResume(w))
  ELSE IF \E a \in 1..Len(w.ras) : RespawnAllResumable(w, a)
    THEN Settle(RespawnAllResume(w, MinOf({a \in 1..Len(w.ras) : RespawnAllResumable(w, a)})))
  ELSE IF \E p \in 1..Len(w.promises) : AllResumable(w, p)
    THEN Settle(AllResume(w, MinOf({p \in 1..Len(w.promises) : AllResumable(w, p)})))
  ELSE IF \E p \in 1..Len(w.promises) : ErrorResumable(w, p)
    THEN Settle(ErrorResume(w, MinOf({p \in 1..Len(w.promises) : ErrorResumable(w, p)})))
  ELSE IF \E p \in 1..Len(w.promises) : RespondResumable(w, p)
    THEN Settle(RespondResume(w, MinOf({p \in 1..Len(w.promises) : RespondResumable(w, p)})))
  ELSE w

\* the state is taken as a value before the continuations run on it
Settle(world) == CHOOSE r \in {SettleFrom(w) : w \in {world}} : TRUE

\* ----------------------------------------------- Cluster._handleMessage

Cluster_handleMessage_disconnectFirst(w, c, m) ==
  IF m.nil THEN Emit(w, c, "message")
  ELSE IF "_disconnect" \in m.tags
    THEN Emit([w EXCEPT !.clusters[c].ready = FALSE], c, "disconnect")
  ELSE IF "_ready" \in m.tags
    THEN Emit([w EXCEPT !.clusters[c].ready = TRUE], c, "ready")
  ELSE Emit(w, c, "message")

Cluster_handleMessage(w, c, m) ==
  IF m.nil THEN Emit(w, c, "message")
  ELSE IF "_ready" \in m.tags
    THEN Emit([w EXCEPT !.clusters[c].ready = TRUE], c, "ready")
  ELSE IF "_disconnect" \in m.tags
    THEN Emit([w EXCEPT !.clusters[c].ready = FALSE], c, "disconnect")
  ELSE IF "_reconnecting" \in m.tags
    THEN Emit([w EXCEPT !.clusters[c].ready = FALSE], c, "reconnecting")
  ELSE IF "_sFetchProp" \in m.tags
    THEN Then(ClusterManager_performOnClusters(w, "fetch", m.key, m.target, w.fails),
              c, "_sFetchProp", m.key, m.target)
  ELSE IF "_sEval" \in m.tags
    THEN Then(ClusterManager_performOnClusters(w, "eval", m.key, m.target, w.fails),
              c, "_sEval", m.key, m.target)
  ELSE IF "_sRespawnAll" \in m.tags
    \* respawnAll({ shardDelay, respawnDelay, timeout }): respawnAll reads
    \* `delay`, which the request never carries, so its default applies
    THEN [ClusterManager_respawnAll(w, m.shardDelay, DefaultRespawnDelay, m.timeout)
            EXCEPT !.ret = NoRet]
  ELSE Emit(w, c, "message")

\* a 'message' event of child ch: _handleMessage, then the listeners of the calls
ChildMessage(w, ch, m) ==
  LET w1 == Cluster_handleMessage(w, w.children[ch].owner, m)
  IN  CallListeners(w1, w.children[ch].listeners, m)

\* ------------------------------------- the worker side (sharding/cluster.js)

\* what a workload module exports: module.exports itself (`own`) and its
\* `default` property; each is a class that extends Base, another class, or
\* a plain object, and `default` may be undefined
Shapes == {"base", "class", "object"}
Modules == [own : Shapes, default : Shapes \cup {"undefined"}]

\* let app = require(file); if (app.default !== undefined) app = app.default
Required(m) == IF m.default # "undefined" THEN m.default ELSE m.own

\* app.prototype instanceof Base
ExtendsBase_always(app) == TRUE
ExtendsBase(app) == app = "base"

\* new Cluster(client) in the worker: nothing connected, nothing loaded
WorkerIdle ==
  [module |-> [own |-> "base", default |-> "undefined"],
   test |-> FALSE, clusterID |-> 0, shards |-> 0,
   bots |-> <<>>, bot |-> 0, app |-> 0, apps |-> <<>>,
   errors |-> 0, loads |-> 0, running |-> TRUE]

\* loadCode(bot): the instance is built with { bot, clusterID, ipc } and
\* launched, or console.error reports that the code was not loaded
Worker_loadCode(k, b) ==
  LET k1 == [k EXCEPT !.loads = @ + 1, !.bots[b].loads = @ + 1]
  IN  IF ExtendsBase(Required(k.module))
        THEN [k1 EXCEPT !.apps = Append(@, [bot |-> b, clusterID |-> k.clusterID,
                                            ipc |-> TRUE, launches |-> 1]),
                        !.app = Len(k.apps) + 1]
        ELSE [k1 EXCEPT !.errors = @ + 1]

\* connect(...): a new client with its once('ready') listener; it logs in,
\* or in test mode the code is loaded at once
Worker_connect(k) ==
  LET b == Len(k.bots) + 1
      k1 == [k EXCEPT !.bots = Append(@, [login |-> ~k.test, once |-> TRUE,
                                          readies |-> 0, loads |-> 0]),
                      !.bot = b]
  IN  IF ~k.test THEN k1 ELSE Worker_loadCode(k1, b)

\* the "connect" case of the message handler
Worker_onConnect(k, firstShardID, lastShardID, id, test) ==
  LET k1 == [k EXCEPT !.clusterID = id, !.shards = (lastShardID - firstShardID) + 1]
  IN  IF k1.shards < 1 THEN k1
      ELSE Worker_connect([k1 EXCEPT !.test = @ \/ test])

\* the client emits 'ready': the once listener, if still there, loads the code
Worker_onReady(k, b) ==
  LET k1 == [k EXCEPT !.bots[b].readies = @ + 1, !.bots[b].once = FALSE]
  IN  IF k.bots[b].once THEN Worker_loadCode(k1, b) ELSE k1

\* the parent sends { name: "connect", firstShardID, lastShardID, id, test }
WorkerConnect(firstShardID, lastShardID, id, test) ==
  /\ wk.running
  /\ Len(wk.bots) < MaxConnects
  /\ wk' = Worker_onConnect(wk, firstShardID, lastShardID, id, test)
  /\ UNCHANGED <<chunkVars, managerVars, poolVars>>

\* client b, logged in, becomes ready (again after a reconnect)
BotReady(b) ==
  /\ wk.running
  /\ wk.bots[b].login
  /\ wk.bots[b].readies < MaxReadies
  /\ wk' = Worker_onReady(wk, b)
  /\ UNCHANGED <<chunkVars, managerVars, poolVars>>

\* the parent sends { name: "restart" }: process.exit(1)
WorkerRestart ==
  /\ wk.running
  /\ wk' = [wk EXCEPT !.running = FALSE]
  /\ UNCHANGED <<chunkVars, managerVars, poolVars>>

\* ------------------------------------------------------------- SpecChunk

GuildIds ==
  {h * (2 ^ ShiftBits) + l : h \in 0..MaxGuildHigh, l \in {0, (2 ^ ShiftBits) - 1}}

NoRoute == [called |-> FALSE, ok |-> FALSE, val |-> 0, err |-> ""]

ChunkIdle ==
  /\ cShards = 1 /\ cSize = 1 /\ cGuild = 0
  /\ cArr = <<>> /\ cResult = <<>> /\ cDone = FALSE /\ cRoute = NoRoute

\* new ClusterManager(file, options): nothing spawned yet
PoolIdle ==
  /\ shardList = Auto
  /\ totalShards = 0
  /\ clusterList = Auto
  /\ totalClusters = 0
  /\ clusters = <<>>
  /\ children = <<>>
  /\ promises = <<>>
  /\ ms = MsIdle
  /\ msCalls = <<>>
  /\ rs = <<>>
  /\ ras = <<>>
  /\ calls = <<>>
  /\ last = NoCall
  /\ emitted = NoneHeard

InitChunk ==
  /\ clusterRespawn = TRUE
  /\ PoolIdle
  /\ wk = WorkerIdle
  /\ cShards \in 1..ChunkMaxShards
  /\ cSize \in 1..ChunkMaxClusters
  /\ cGuild \in GuildIds
  /\ cArr = ArrayKeys(cShards)
  /\ cResult = <<>>
  /\ cDone = FALSE
  /\ cRoute = NoRoute

\* const shardChunk = Util.chunk(this.shardList, clusters)
ChunkCall ==
  /\ ~cDone
  /\ cResult' = Util_chunk(cArr, cSize)
  /\ cArr' = Util_chunk_arr(cArr, cSize)
  /\ cDone' = TRUE
  /\ UNCHANGED <<cShards, cSize, cGuild, cRoute, managerVars, poolVars, workerVars>>

\* ClusterClientUtil.clusterIdForGuildId(guildId, clusterCount, shardCount)
RouteCall ==
  /\ ~cRoute.called
  /\ cRoute' = [called |-> TRUE] @@ clusterIdForGuildId(cGuild, cSize, cShards)
  /\ UNCHANGED <<cShards, cSize, cGuild, cArr, cResult, cDone, managerVars, poolVars,
                 workerVars>>

NextChunk == ChunkCall \/ RouteCall

SpecChunk == InitChunk /\ [][NextChunk]_vars


\* ------------------------------------------------------------------ actions

Init ==
  /\ ChunkIdle
  /\ clusterRespawn \in BOOLEAN
  /\ PoolIdle
  /\ wk = WorkerIdle

\* manager.spawn({ clusters, shards, delay, timeout }); a repeated call passes
\* the counts and options of the first
ManagerSpawn(cl, sh, delay, timeout) ==
  /\ Len(msCalls) < MaxSpawnCalls
  /\ msCalls # <<>> =>
       /\ cl = msCalls[1].clusters /\ sh = msCalls[1].shards
       /\ delay = ms.delay /\ timeout = ms.timeout
  /\ Commit(Settle(ClusterManager_spawn(World, cl, sh, delay, timeout)))

\* the timer of Util.delayFor(delay) in the loop of spawn fires
SpawnDelayElapsed ==
  /\ ms.pc = "await" /\ ms.delayPending
  /\ Commit(Settle([World EXCEPT !.ms.delayPending = FALSE]))

\* spawnTimeoutTimer fires
ReadyTimeout(p) ==
  /\ promises[p].kind = "spawn"
  /\ p \in clusters[promises[p].cluster].waiters
  /\ Commit(Settle(OnTimeout(World, promises[p].cluster, p)))

\* in the worker: the client emits ready / disconnect / reconnecting, and
\* ClusterClientUtil sends the matching signal to the parent
ChildEmit(ch, tag) ==
  /\ children[ch].alive
  /\ InFlight < MaxInFlight
  /\ Commit([World EXCEPT !.children[ch].out = Append(@, Msg({tag}, "", FALSE))])

\* the parent receives the next message of child ch
Deliver(ch) ==
  /\ children[ch].out # <<>>
  /\ Commit(Settle(ChildMessage([World EXCEPT !.children[ch].out = Tail(@)],
                                ch, Head(children[ch].out))))

\* the 'exit' event of child ch, whether it exits on its own or was killed:
\* the exit listener, when still attached, runs _handleExit(undefined)
ChildExit(ch) ==
  /\ ~children[ch].exited
  /\ LET w == [World EXCEPT !.children[ch].alive = FALSE, !.children[ch].exited = TRUE]
     IN  Commit(Settle(IF children[ch].exitL
                         THEN Cluster_handleExit(w, children[ch].owner, clusterRespawn)
                         ELSE w))

\* cluster.eval(key) / cluster.fetchClientValue(key)
Call(c, kind, key, ok) ==
  /\ Len(calls) < MaxCalls
  /\ Commit(Settle(Cluster_call(World, c, kind, key, ok)))

\* the callback of child.send reports the write error, once
SendFail(p) ==
  /\ promises[p].failing
  /\ promises[p].state = "pending"
  /\ Commit(Settle(Cluster_sendFailed(World, p)))

\* the property paths asked of a client: "x" names a property the client
\* has, "a.b" a property of client.a, which the client does not have
Props == Keys \cup {"a.b"}
ClientProps == Keys

\* message._fetchProp.split('.')
PathSegments(path) == IF path = "a.b" THEN <<"a", "b">> ELSE <<path>>

\* value[prop]: reading a property of undefined throws a TypeError, a property
\* that an object or a primitive value does not have is undefined
ReadProp(value, prop) ==
  IF value \in {"undefined", "throw"} THEN "throw"
  ELSE IF value = "client" /\ prop \in ClientProps THEN "value"
  ELSE "undefined"

\* let value = this.client; for (const prop of props) value = value[prop]
RECURSIVE WalkProps(_, _)
WalkProps(value, props) ==
  IF props = <<>> THEN value
  ELSE WalkProps(ReadProp(value, Head(props)), Tail(props))

\* in the worker: ClusterClientUtil._handleMessage takes the next message and
\* answers it when it is a request; `err` is whether the evaluated script
\* throws. The result, or the error thrown, is the number of the worker's
\* cluster; a property lookup that throws ends the handler with no answer.
ChildHandle(ch, err) ==
  /\ children[ch].alive
  /\ children[ch].inb # <<>>
  /\ LET m == Head(children[ch].inb)
         w == [World EXCEPT !.children[ch].inb = Tail(@)]
         value == WalkProps("client", PathSegments(m.key))
         Answer(result) ==
           [w EXCEPT !.children[ch].out =
              Append(@, [Msg(m.tags, m.key, err) EXCEPT !.result = result])]
     IN  /\ err => "_eval" \in m.tags /\ "_fetchProp" \notin m.tags
         /\ Commit(IF "_fetchProp" \in m.tags
                     THEN IF value = "throw" THEN w
                          ELSE Answer(IF value = "value" THEN children[ch].owner ELSE 0)
                   ELSE IF "_eval" \in m.tags THEN Answer(children[ch].owner)
                   ELSE w)

\* cluster.kill()
Kill(c) ==
  /\ clusters[c].child # 0
  /\ Commit(Settle([Cluster_kill(World, c) EXCEPT !.ret = NoRet]))

\* manager.respawnAll({ shardDelay, delay, timeout })
RespawnAll(shardDelay, delay, timeout) ==
  /\ Len(ras) < MaxRespawnAlls
  /\ Commit(Settle(ClusterManager_respawnAll(World, shardDelay, delay, timeout)))

\* in the worker: ClusterClientUtil.respawnAll() sends the request
ChildRequestRespawnAll(ch, shardDelay, respawnDelay, timeout) ==
  /\ children[ch].alive
  /\ InFlight < MaxInFlight
  /\ Len(ras) < MaxRespawnAlls
  /\ Commit([World EXCEPT !.children[ch].out =
       Append(@, [Msg({"_sRespawnAll"}, "", FALSE) EXCEPT
                    !.shardDelay = shardDelay, !.respawnDelay = respawnDelay,
                    !.timeout = timeout])])

\* the timer of Util.delayFor(delay) in respawn fires
RespawnDelayElapsed(r) ==
  /\ rs[r].pc = "delay"
  /\ Commit(Settle(RespawnSpawn(World, r)))

\* the timer of Util.delayFor(shardDelay) in respawnAll fires
ShardDelayElapsed(a) ==
  /\ ras[a].pc = "await" /\ ras[a].delayPending
  /\ Commit(Settle([World EXCEPT !.ras[a].delayPending = FALSE]))

\* manager.fetchClientValues(key, target) / manager._performOnClusters('eval', ...)
Perform(kind, key, target, fails) ==
  /\ last.n < MaxApiCalls
  /\ Commit(Settle(Noted(ClusterManager_performOnClusters(World, kind, key, target, fails),
                         "perform", target, 0)))

\* manager.broadcast(message); `fails` are the workers whose write will fail
Broadcast(fails) ==
  /\ last.n < MaxApiCalls
  /\ Commit(Settle(Noted(ClusterManager_broadcast(World, fails), "broadcast", 0 - 1, 0)))

\* the callback of child.send of a cluster.send runs
SendDone(p) ==
  /\ promises[p].kind = "send"
  /\ promises[p].state = "pending"
  /\ Commit(Settle(Cluster_sendCallback(World, p)))

\* cluster.send(message), called directly; `ok` is whether the write succeeds
SendCall(c, ok) ==
  /\ last.n < MaxApiCalls
  /\ Commit(Settle(Noted(Cluster_send(World, c, ok), "send", c, 0)))

\* cluster.spawn(timeout), called directly
SpawnCall(c, timeout) ==
  /\ last.n < MaxApiCalls
  /\ Commit(Settle(Noted(Cluster_spawn(World, c, timeout), "spawn", c, timeout)))

\* the tags that _handleMessage looks for
SignalTags ==
  {"_ready", "_disconnect", "_reconnecting", "_sFetchProp", "_sEval", "_sRespawnAll"}

\* the requests of workers that the parent has taken so far
Asked == Cardinality({p \in 1..Len(promises) : promises[p].kind = "respond"})

\* in the worker: ClusterClientUtil.send(message) with a message of the
\* caller's making: any tags, the key and target of a request, or no message
\* at all (`nil`)
ChildSay(ch, tags, key, target, nil) ==
  /\ children[ch].alive
  /\ InFlight < MaxInFlight
  /\ nil => tags = {}
  /\ tags \cap {"_sFetchProp", "_sEval"} # {} => Asked < MaxAsks
  /\ "_sRespawnAll" \in tags => Len(ras) < MaxRespawnAlls
  /\ Commit([World EXCEPT !.children[ch].out =
       Append(@, [Msg(tags, key, FALSE) EXCEPT
                    !.target = target, !.nil = nil, !.timeout = NoWait])])

\* the parent receives the next message of child ch, while listeners on the
\* Clusters record what they emit; `fails` are the clusters whose writes to
\* the child fail during the step
Receive(ch, fails) ==
  /\ children[ch].out # <<>>
  /\ Commit(Settle(ChildMessage(
       [World EXCEPT !.children[ch].out = Tail(@), !.heard = TRUE, !.fails = fails,
                     !.msg = <<Head(children[ch].out)>>],
       ch, Head(children[ch].out))))

ChildIds == 1..Len(children)
ClusterIds == 1..Len(clusters)
PromiseIds == 1..Len(promises)

\* the pool: spawning, readiness, exits
Next ==
  \/ \E cl \in 1..MaxClusters, sh \in 1..MaxShards,
        d \in {0, DefaultSpawnDelay}, t \in {NoWait, DefaultTimeout} :
       msCalls = <<>> /\ ManagerSpawn(cl, sh, d, t)
  \/ SpawnDelayElapsed
  \/ \E p \in PromiseIds : ReadyTimeout(p)
  \/ \E ch \in ChildIds, tag \in {"_ready", "_disconnect"} : ChildEmit(ch, tag)
  \/ \E ch \in ChildIds : Deliver(ch)
  \/ \E ch \in ChildIds : ChildExit(ch)

Spec == Init /\ [][Next]_vars

\* the pool with no delay between the workers: a first spawn call, the
\* readiness timers, the signals of the children and their exits
NextSpawn ==
  \/ \E cl \in 1..MaxClusters, sh \in 1..MaxShards, t \in {NoWait, DefaultTimeout} :
       msCalls = <<>> /\ ManagerSpawn(cl, sh, 0, t)
  \/ \E p \in PromiseIds : ReadyTimeout(p)
  \/ \E ch \in ChildIds, tag \in {"_ready", "_disconnect"} : ChildEmit(ch, tag)
  \/ \E ch \in ChildIds : Deliver(ch)
  \/ \E ch \in ChildIds : ChildExit(ch)

SpecSpawn == Init /\ [][NextSpawn]_vars

\* the pool, with manager.spawn called again on it
NextAgain ==
  \/ \E cl \in 1..MaxClusters, sh \in 1..MaxShards,
        d \in {0, DefaultSpawnDelay}, t \in {NoWait, DefaultTimeout} :
       ManagerSpawn(cl, sh, d, t)
  \/ SpawnDelayElapsed
  \/ \E ch \in ChildIds : ChildEmit(ch, "_ready")
  \/ \E ch \in ChildIds : Deliver(ch)

SpecAgain == Init /\ [][NextAgain]_vars

\* one worker and the calls made on it: eval, fetchClientValue, kill
NextEval ==
  \/ \E sh \in 1..MaxShards : msCalls = <<>> /\ ManagerSpawn(1, sh, 0, NoWait)
  \/ \E c \in ClusterIds, kind \in {"eval", "fetch"}, key \in Keys, ok \in BOOLEAN :
       Call(c, kind, key, ok)
  \/ \E p \in PromiseIds : SendFail(p)
  \/ \E ch \in ChildIds, err \in BOOLEAN : ChildHandle(ch, err)
  \/ \E ch \in ChildIds : Deliver(ch)
  \/ \E ch \in ChildIds : ChildExit(ch)
  \/ \E c \in ClusterIds : Kill(c)

SpecEval == Init /\ [][NextEval]_vars

\* the rolling restart of the spawned pool
NextRespawn ==
  \/ \E cl \in 1..MaxClusters, sh \in 1..MaxShards :
       msCalls = <<>> /\ ManagerSpawn(cl, sh, 0, NoWait)
  \/ \E sd \in {0, DefaultShardDelay}, d \in {0, DefaultRespawnDelay},
        t \in {NoWait, DefaultTimeout} :
       ras = <<>> /\ ms.pc = "resolved" /\ RespawnAll(sd, d, t)
  \/ \E ch \in ChildIds, sd \in {0, DefaultShardDelay}, t \in {NoWait, DefaultTimeout} :
       ras # <<>> /\ ChildRequestRespawnAll(ch, sd, DefaultRespawnDelay, t)
  \/ \E ch \in ChildIds : ChildEmit(ch, "_ready")
  \/ \E ch \in ChildIds : Deliver(ch)
  \/ \E ch \in ChildIds : ChildExit(ch)
  \/ \E p \in PromiseIds : ReadyTimeout(p)
  \/ \E r \in 1..Len(rs) : RespawnDelayElapsed(r)
  \/ \E a \in 1..Len(ras) : ShardDelayElapsed(a)

SpecRespawn == Init /\ [][NextRespawn]_vars

\* the pool and the calls fanned out over it
NextPerform ==
  \/ \E cl \in 1..MaxClusters, d \in {0, DefaultSpawnDelay} :
       msCalls = <<>> /\ ManagerSpawn(cl, MaxShards, d, NoWait)
  \/ SpawnDelayElapsed
  \/ \E kind \in {"eval", "fetch"}, key \in Keys, target \in (0 - 1)..(MaxClusters - 1) :
       Perform(kind, key, target, {})

\* new ClusterManager(file): clusterRespawn is true by default
InitPerform == Init /\ clusterRespawn = TRUE

SpecPerform == InitPerform /\ [][NextPerform]_vars

\* the spawned pool, a call fanned out over all its workers, and their answers
NextFanOut ==
  \/ \E cl \in 1..MaxClusters : msCalls = <<>> /\ ManagerSpawn(cl, MaxShards, 0, NoWait)
  \/ \E key \in Keys : last.n < MaxFanOuts /\ Perform("eval", key, 0 - 1, {})
  \/ \E ch \in ChildIds, err \in BOOLEAN : ChildHandle(ch, err)
  \/ \E ch \in ChildIds : Deliver(ch)
  \/ \E c \in ClusterIds : Kill(c)

SpecFanOut == InitPerform /\ [][NextFanOut]_vars

\* the pool and the messages broadcast over it
NextBroadcast ==
  \/ \E cl \in 1..MaxClusters, d \in {0, DefaultSpawnDelay} :
       msCalls = <<>> /\ ManagerSpawn(cl, MaxShards, d, NoWait)
  \/ SpawnDelayElapsed
  \/ \E fails \in SUBSET ClusterIds : last.n < MaxFanOuts /\ Broadcast(fails)
  \/ \E p \in PromiseIds : SendDone(p)
  \/ \E c \in ClusterIds : Kill(c)

SpecBroadcast == InitPerform /\ [][NextBroadcast]_vars

\* one worker handle: spawn called on it directly, kill, and readiness
NextCluster ==
  \/ msCalls = <<>> /\ ManagerSpawn(1, MaxShards, 0, NoWait)
  \/ \E c \in ClusterIds, t \in {NoWait, 0, TimeoutInfinity, DefaultTimeout} : SpawnCall(c, t)
  \/ \E c \in ClusterIds : Kill(c)
  \/ \E ch \in ChildIds : ChildEmit(ch, "_ready")
  \/ \E ch \in ChildIds : Deliver(ch)
  \/ \E p \in PromiseIds : ReadyTimeout(p)

SpecCluster == InitPerform /\ [][NextCluster]_vars

\* one worker handle: kill, and the exit of its child, under either policy
NextKill ==
  \/ msCalls = <<>> /\ ManagerSpawn(1, MaxShards, 0, NoWait)
  \/ \E c \in ClusterIds : Kill(c)
  \/ \E ch \in ChildIds : ChildExit(ch)
  \/ \E ch \in ChildIds : ChildEmit(ch, "_ready")
  \/ \E ch \in ChildIds : Deliver(ch)
  \/ \E c \in ClusterIds, kind \in {"eval", "fetch"}, key \in Keys : Call(c, kind, key, TRUE)

SpecKill == Init /\ [][NextKill]_vars

\* one worker handle and the messages of its child, of every shape
NextMessage ==
  \/ msCalls = <<>> /\ ManagerSpawn(1, MaxShards, 0, NoWait)
  \/ \E ch \in ChildIds, tags \in {t \in SUBSET SignalTags : Cardinality(t) <= 2},
        nil \in BOOLEAN :
       ChildSay(ch, tags, "x", 0 - 1, nil)
  \/ \E ch \in ChildIds : Receive(ch, {})
  \/ \E c \in ClusterIds : Kill(c)

SpecMessage == InitPerform /\ [][NextMessage]_vars

\* the pool and the requests of its workers to the parent, fanned out and answered
NextAsk ==
  \/ \E cl \in 1..MaxClusters : msCalls = <<>> /\ ManagerSpawn(cl, MaxShards, 0, NoWait)
  \/ \E ch \in ChildIds, tag \in {"_sFetchProp", "_sEval"}, key \in Keys,
        target \in (0 - 1)..(MaxClusters - 1) :
       ChildSay(ch, {tag}, key, target, FALSE)
  \/ \E ch \in ChildIds : Receive(ch, {})
  \/ \E ch \in ChildIds, err \in BOOLEAN : ChildHandle(ch, err)
  \/ \E ch \in ChildIds : ChildExit(ch)

SpecAsk == InitPerform /\ [][NextAsk]_vars

\* ClusterManager.spawn over a wider range of counts, and the readiness of the
\* workers it creates
NextPartition ==
  \/ \E cl \in 1..PartMaxClusters, sh \in 1..PartMaxShards, t \in {NoWait, DefaultTimeout} :
       msCalls = <<>> /\ ManagerSpawn(cl, sh, 0, t)
  \/ \E ch \in ChildIds : ChildEmit(ch, "_ready")
  \/ \E ch \in ChildIds : Deliver(ch)

SpecPartition == InitPerform /\ [][NextPartition]_vars

\* the worker handles and the messages sent to their children one by one
NextSend ==
  \/ \E cl \in 1..MaxClusters : msCalls = <<>> /\ ManagerSpawn(cl, MaxShards, 0, NoWait)
  \/ \E c \in ClusterIds, ok \in BOOLEAN : SendCall(c, ok)
  \/ \E p \in PromiseIds : SendDone(p)
  \/ \E c \in ClusterIds : Kill(c)
  \/ \E ch \in ChildIds : ChildHandle(ch, FALSE)

SpecSend == InitPerform /\ [][NextSend]_vars

\* one worker process: the messages of its parent and the events of its clients
InitWorker ==
  /\ ChunkIdle
  /\ clusterRespawn = TRUE
  /\ PoolIdle
  /\ wk \in {[WorkerIdle EXCEPT !.module = m] : m \in Modules}

NextWorker ==
  \/ \E firstShardID \in 0..MaxShardId, lastShardID \in 0..MaxShardId,
        id \in 0..1, test \in BOOLEAN :
       WorkerConnect(firstShardID, lastShardID, id, test)
  \/ \E b \in 1..Len(wk.bots) : BotReady(b)
  \/ WorkerRestart

SpecWorker == InitWorker /\ [][NextWorker]_vars

\* ---------------------------------------------------------------- claims

\* sum of the lengths, and the concatenation, of a list of lists
RECURSIVE Concat(_)
Concat(ls) == IF ls = <<>> THEN <<>> ELSE Head(ls) \o Concat(Tail(ls))

Contiguous(l) == \A i \in 1..(Len(l) - 1) : l[i + 1] = l[i] + 1

\* C1: for shardCount >= workerCount > 0, Util.chunk of [0, shardCount) yields
\* exactly workerCount groups, each non-empty and contiguous, pairwise
\* non-overlapping, with sizes differing by at most 1, whose concatenation in
\* order is [0, shardCount).
C1_ChunkExactPartition ==
  (cDone /\ cShards >= cSize) =>
    /\ Len(cResult) = cSize
    /\ \A i \in 1..Len(cResult) : Len(cResult[i]) > 0 /\ Contiguous(cResult[i])
    /\ \A i, j \in 1..Len(cResult) :
         i # j => {cResult[i][a] : a \in 1..Len(cResult[i])}
                    \cap {cResult[j][a] : a \in 1..Len(cResult[j])} = {}
    /\ \A i, j \in 1..Len(cResult) : Len(cResult[i]) - Len(cResult[j]) <= 1
    /\ Concat(cResult) = ArrayKeys(cShards)

\* C3: the router is a left-inverse of the partitioning: for every shard s in
\* the chunk of worker w, clusterIdForGuildId of a guild whose shard is s
\* returns w.
C3_RouterLeftInverse ==
  cRoute.called =>
    LET chunks == Util_chunk(ArrayKeys(cShards), cSize)
        s == ShardForGuild(cGuild, cShards)
    IN  \A w \in 1..Len(chunks) :
          (\E a \in 1..Len(chunks[w]) : chunks[w][a] = s) =>
            (cRoute.ok /\ cRoute.val = w - 1)

\* the shard ids of cluster c
ShardsOf(c) == {clusters[c].shards[i] : i \in 1..Len(clusters[c].shards)}

\* the shard lists of the clusters, in the order of the pool
ShardLists == [c \in ClusterIds |-> clusters[c].shards]

\* C2: in every reachable state no shard id is assigned to two workers, and
\* once ClusterManager.spawn has resolved the workers' shard lists, taken in
\* order, are exactly [0, totalShards), every shard id with one worker.
C2_PoolPartition ==
  /\ \A c, d \in ClusterIds : c # d => ShardsOf(c) \cap ShardsOf(d) = {}
  /\ ms.pc = "resolved" =>
       /\ UNION {ShardsOf(c) : c \in ClusterIds} = 0..(totalShards - 1)
       /\ Concat(ShardLists) = ArrayKeys(totalShards)

C2_Witness ==
  /\ ms.pc = "resolved" /\ Len(clusters) >= 2
  /\ \E c \in ClusterIds : Len(clusters[c].shards) >= 1 /\ clusters[c].child # 0

\* C6: a spawn with a finite timeout settles exactly once, by the first of:
\* a readiness signal (resolves with the child), the timer
\* (CLUSTER_READY_TIMEOUT), the exit of the child (CLUSTER_READY_DIED), a
\* disconnect signal (CLUSTER_READY_DISCONNECTED); later events change nothing.
HeadIs(ch, tag) == children[ch].out # <<>> /\ tag \in Head(children[ch].out).tags

\* the step delivers a message of child ch that carries `tag`
Delivered(ch, tag) == HeadIs(ch, tag) /\ children'[ch].out = Tail(children[ch].out)

\* the step is the exit of child ch
Exited(ch) == children[ch].alive /\ ~children'[ch].alive

\* the step is the timer of spawn promise p: its listeners go, and no message
\* was consumed and no child exited
TimerFired(p) ==
  /\ p \in clusters[promises[p].cluster].waiters
  /\ p \notin clusters'[promises[p].cluster].waiters
  /\ children' = children

C6_SpawnSettlesOnce ==
  [][\A p \in PromiseIds : promises[p].kind = "spawn" =>
       LET c == promises[p].cluster
           q == promises'[p]
           ready == \E ch \in ChildIds : children[ch].owner = c /\ Delivered(ch, "_ready")
           disconnect ==
             \E ch \in ChildIds : children[ch].owner = c /\ Delivered(ch, "_disconnect")
           died == \E ch \in ChildIds : children[ch].owner = c /\ Exited(ch)
           timer == TimerFired(p)
       IN  /\ promises[p].state # "pending" => q = promises[p]
           /\ promises[p].state = "pending" =>
                /\ ready => (q.state = "resolved" /\ q.val = promises[p].child)
                /\ disconnect =>
                     (q.state = "rejected" /\ q.err = "CLUSTER_READY_DISCONNECTED")
                /\ died => (q.state = "rejected" /\ q.err = "CLUSTER_READY_DIED")
                /\ timer => (q.state = "rejected" /\ q.err = "CLUSTER_READY_TIMEOUT")
                /\ q.state # "pending" => (ready \/ disconnect \/ died \/ timer)
    ]_vars

\* a spawn rejected by its timer, whose worker signalled readiness afterwards
C6_Witness ==
  \E p \in PromiseIds :
    /\ promises[p].kind = "spawn" /\ promises[p].state = "rejected"
    /\ promises[p].err = "CLUSTER_READY_TIMEOUT"
    /\ clusters[promises[p].cluster].ready
    /\ clusters[promises[p].cluster].child = promises[p].child

\* C7: when a child exits on its own while clusterRespawn is true, exactly one
\* new child is forked for that worker, with the worker's original shard
\* assignment (Cluster.shards and the SHARDS payload unchanged).
C7_ExitRespawnsOnce ==
  [][\A ch \in ChildIds :
       (/\ clusterRespawn
        /\ children[ch].alive /\ children[ch].exitL
        /\ ~children'[ch].alive /\ children'[ch].exitL) =>
         LET c == children[ch].owner
             new == Len(children')
         IN  /\ new = Len(children) + 1
             /\ children'[new].owner = c
             /\ children'[new].alive
             /\ children'[new].env = ms.chunks[c]
             /\ clusters'[c].shards = ms.chunks[c]
             /\ clusters'[c].child = new
    ]_vars

C7_Witness ==
  /\ clusterRespawn
  /\ \E ch \in ChildIds :
       /\ ~children[ch].alive /\ children[ch].exitL
       /\ clusters[children[ch].owner].child > ch
       /\ Len(clusters[children[ch].owner].shards) = 2

\* C9: ClusterManager.spawn creates the workers in ascending id order, worker
\* k+1 only after the spawn of worker k has resolved; when the spawn of worker
\* k rejects, no worker after k is created and the call rejects with that error.
C9_SequentialSpawn ==
  /\ Len(ms.ps) = Len(clusters)
  /\ \A k \in ClusterIds : clusters[k].id = ObjectEntriesKey(k - 1)
  /\ \A k \in ClusterIds :
       k < Len(clusters) => AwaitState(World, ms.ps[k]) = "resolved"
  /\ \A k \in ClusterIds :
       AwaitState(World, ms.ps[k]) = "rejected" =>
         /\ k = Len(clusters)
         /\ ms.pc = "rejected"
         /\ msCalls[ms.call].state = "rejected"
         /\ msCalls[ms.call].err = promises[ms.ps[k]].err

\* the spawn of worker 0 failed and worker 1, which has a chunk, was never created
C9_Witness ==
  /\ ms.pc = "rejected"
  /\ Len(clusters) = 1 /\ Len(ms.chunks) = 2
  /\ msCalls[ms.call].err = "CLUSTER_READY_DIED"

\* C10: a second ClusterManager.spawn on a pool whose first spawn completed
\* fails with SHARDING_ALREADY_SPAWNED or CLUSTER_ALREADY_SPAWNED, and creates
\* no worker and no child.
C10_SecondSpawnAlreadySpawned ==
  \A k \in 1..Len(msCalls) :
    msCalls[k].after = "resolved" =>
      /\ msCalls[k].state = "rejected"
      /\ msCalls[k].err \in {"SHARDING_ALREADY_SPAWNED", "CLUSTER_ALREADY_SPAWNED"}
      /\ Len(clusters) = msCalls[k].sizeBefore
      /\ Len(children) = msCalls[k].forksBefore

\* C4: a call of eval / fetchClientValue made while a call with the same key on
\* the same worker is still pending sends no second request and returns the
\* promise of the first, so that both callers see one result.
C4_SameKeyCallsShare ==
  \A j \in 1..Len(calls) :
    \A p \in calls[j].pendingBefore :
      calls[j].promise = p /\ ~calls[j].sent

\* C5: a pending eval / fetchClientValue call does not stay pending forever
\* once the child it was sent to has exited or was killed: it is rejected, so
\* a call that is still pending has something left that can settle it (a
\* running child, a message of the child still to deliver, a failed write
\* still to report).
C5_PendingCallsCanSettle ==
  \A p \in PromiseIds :
    (promises[p].kind \in {"eval", "fetch"} /\ promises[p].state = "pending") =>
      \/ children[promises[p].child].alive
      \/ children[promises[p].child].out # <<>>
      \/ promises[p].failing

\* the workers that a call of respawn has killed and not yet spawned and
\* settled again
MidRespawn ==
  {rs[r].cluster : r \in {x \in 1..Len(rs) :
     \/ rs[x].pc = "delay"
     \/ rs[x].pc = "spawned" /\ AwaitState(World, rs[x].p) = "pending"}}

\* C8: at every instant at most one worker of the pool is mid-respawn, also
\* when a worker's _sRespawnAll request starts a second respawnAll while one
\* is running.
C8_AtMostOneMidRespawn == Cardinality(MidRespawn) <= 1

\* the step is a direct call of `op`
Called(op) == last'.n = last.n + 1 /\ last'.op = op

\* the worker that ClusterManager.spawn created with id i, if any
WorkersWithId(i) == {c \in ClusterIds : clusters[c].id = ObjectEntriesKey(i)}

\* C11: _performOnClusters without a target, while the pool holds workers but
\* not as many as the spawn intends (1 of 2 created), rejects with
\* CLUSTER_IN_PROCESS and sends no request to any worker.
C11_PartialPoolInProcess ==
  [][(/\ Called("perform") /\ last'.target < 0
      /\ Len(clusters) > 0 /\ Len(clusters) # totalClusters) =>
       /\ promises'[last'.promise].state = "rejected"
       /\ promises'[last'.promise].err = "CLUSTER_IN_PROCESS"
       /\ children' = children
       /\ clusters' = clusters
       /\ calls' = calls
    ]_vars

C11_Witness ==
  /\ last.op = "perform" /\ last.target < 0
  /\ Len(clusters) = 1 /\ totalClusters = 2
  /\ promises[last.promise].err = "CLUSTER_IN_PROCESS"

\* C12: for a worker that ClusterManager.spawn created with id i,
\* _performOnClusters(method, args, i) delegates the call to that worker alone
\* and returns that worker's result.
C12_TargetFindsWorker ==
  [][(Called("perform") /\ last'.target >= 0 /\ WorkersWithId(last'.target) # {}) =>
       /\ Len(calls') = Len(calls) + 1
       /\ calls'[Len(calls')].cluster \in WorkersWithId(last'.target)
       /\ last'.promise = calls'[Len(calls')].promise
    ]_vars

\* C13: _performOnClusters with a target for which no worker exists rejects
\* with CLUSTER_CLUSTER_NOT_FOUND in every pool state, the empty pool included.
C13_AbsentTargetNotFound ==
  [][(Called("perform") /\ last'.target >= 0 /\ WorkersWithId(last'.target) = {}) =>
       /\ promises'[last'.promise].state = "rejected"
       /\ promises'[last'.promise].err = "CLUSTER_CLUSTER_NOT_FOUND"
    ]_vars

\* C14: on a fully spawned pool _performOnClusters without a target calls the
\* method on every worker, in the order of the worker ids; its promise resolves
\* when all calls resolved, with one result per worker in that order, and
\* rejects with the first rejection of a call; once settled it never changes.
C14_FanOutOrderedFirstRejection ==
  [][\A p \in 1..Len(promises') :
       (promises'[p].kind = "all" /\ promises'[p].key = "perform") =>
         LET q == promises'[p]
             part(i) == promises'[q.parts[i]]
             rejected == {i \in 1..Len(q.parts) : part(i).state = "rejected"}
             fresh == p > Len(promises)
         IN  /\ Len(q.parts) = Len(clusters')
             /\ \A i \in 1..Len(q.parts) : part(i).cluster = i
             /\ (~fresh /\ promises[p].state # "pending") => q = promises[p]
             /\ q.state = "pending" =>
                  /\ rejected = {}
                  /\ \E i \in 1..Len(q.parts) : part(i).state = "pending"
             /\ q.state = "resolved" =>
                  /\ \A i \in 1..Len(q.parts) : part(i).state = "resolved"
                  /\ q.vals = [i \in 1..Len(q.parts) |-> part(i).val]
                  /\ \A i \in 1..Len(q.parts) : q.vals[i] = i
             /\ (q.state = "rejected" /\ (fresh \/ promises[p].state = "pending")) =>
                  /\ rejected # {}
                  /\ q.err = part(MinOf(rejected)).err
                  /\ q.val = part(MinOf(rejected)).val
    ]_vars

\* a fan-out over two workers rejected by the error that the script threw in
\* the second, while the call on the first resolved
C14_Witness ==
  \E p \in PromiseIds :
    /\ promises[p].kind = "all" /\ promises[p].key = "perform"
    /\ promises[p].state = "rejected" /\ promises[p].err = "EVAL_ERROR"
    /\ promises[p].val = 2 /\ Len(promises[p].parts) = 2
    /\ promises[promises[p].parts[1]].state = "resolved"

\* C15: ClusterManager.broadcast attempts a send to every worker in the pool,
\* also when a send fails; its promise resolves only when all sends succeeded
\* and rejects when a send fails, a worker without a child included.
C15_BroadcastSendsToAll ==
  [][/\ Called("broadcast") =>
          LET q == promises'[last'.promise]
          IN  /\ q.kind = "all" /\ Len(q.parts) = Len(clusters)
              /\ \A c \in ClusterIds :
                   LET part == promises'[q.parts[c]]
                       ch == clusters[c].child
                   IN  /\ part.kind = "send" /\ part.cluster = c /\ part.child = ch
                       /\ q.parts[c] > Len(promises)
                       /\ ch = 0 => part.state = "rejected"
                       /\ ch # 0 =>
                            \/ part.failing /\ children'[ch].inb = children[ch].inb
                            \/ /\ ~part.failing
                               /\ children'[ch].inb =
                                    Append(children[ch].inb, Msg({"_message"}, "", FALSE))
     /\ \A p \in 1..Len(promises') :
          (promises'[p].kind = "all" /\ promises'[p].key = "broadcast") =>
            LET q == promises'[p]
                part(i) == promises'[q.parts[i]]
            IN  /\ (p <= Len(promises) /\ promises[p].state # "pending") => q = promises[p]
                /\ q.state = "resolved" =>
                     \A i \in 1..Len(q.parts) : part(i).state = "resolved" /\ ~part(i).failing
                /\ q.state = "pending" =>
                     \A i \in 1..Len(q.parts) : part(i).state # "rejected"
                /\ q.state = "rejected" =>
                     \E i \in 1..Len(q.parts) :
                       part(i).state = "rejected" /\ part(i).err = q.err
    ]_vars

\* a broadcast over two workers, the first without a child: rejected, with the
\* message written to the second all the same
C15_Witness ==
  /\ last.op = "broadcast" /\ Len(clusters) = 2
  /\ clusters[1].child = 0 /\ clusters[2].child # 0
  /\ promises[last.promise].state = "rejected"
  /\ promises[last.promise].err = "TypeError"
  /\ Len(promises[last.promise].parts) = 2
  /\ promises[promises[last.promise].parts[2]].state = "resolved"

\* the step kills child ch: it stops running, its exit event still to come
Killed(ch) == children[ch].alive /\ ~children'[ch].alive /\ ~children'[ch].exited

\* the step is the exit event of child ch, killed before
KilledExit(ch) == ~children[ch].alive /\ ~children[ch].exited /\ children'[ch].exited

\* C16: Cluster.kill on a worker with a running child leaves it, in the same
\* step, not ready, without a child and with empty _evals and _fetches, emits
\* death once and forks nothing, whatever clusterRespawn is; the exit event of
\* the killed child, delivered later, changes nothing and forks nothing.
C16_KillCleansNoRespawn ==
  [][\A ch \in ChildIds :
       LET c == children[ch].owner
       IN  /\ Killed(ch) =>
                /\ clusters[c].child = ch
                /\ ~children'[ch].exitL
                /\ ~clusters'[c].ready
                /\ clusters'[c].child = 0
                /\ clusters'[c].evals = {} /\ clusters'[c].fetches = {}
                /\ clusters'[c].deaths = clusters[c].deaths + 1
                /\ clusters'[c].spawns = clusters[c].spawns
                /\ Len(children') = Len(children)
           /\ KilledExit(ch) =>
                /\ clusters' = clusters
                /\ Len(children') = Len(children)
                /\ promises' = promises
    ]_vars

\* a worker that was ready and had a pending eval was killed while
\* clusterRespawn is true; the exit event of its child came, and it has no child
C16_Witness ==
  /\ clusterRespawn
  /\ \E ch \in ChildIds :
       LET c == children[ch].owner
       IN  /\ ~children[ch].exitL /\ children[ch].exited
           /\ children[ch].listeners # {}
           /\ clusters[c].child = 0 /\ ~clusters[c].ready
           /\ clusters[c].evals = {} /\ clusters[c].deaths = 1

\* C17: Cluster.spawn on a worker that has a child throws
\* CLUSTER_PROCESS_EXISTS / CLUSTER_WORKER_EXISTS and changes nothing: no child
\* is forked, the worker (its child, ready flag, tables, spawn events) and the
\* promises are as before.
C17_SpawnTwiceThrows ==
  [][(Called("spawn") /\ clusters[last'.target].child # 0) =>
       /\ last'.thrown
       /\ last'.err \in {"CLUSTER_PROCESS_EXISTS", "CLUSTER_WORKER_EXISTS"}
       /\ children' = children
       /\ clusters' = clusters
       /\ promises' = promises
    ]_vars

C17_Witness ==
  /\ last.op = "spawn" /\ last.thrown
  /\ clusters[last.target].child # 0 /\ clusters[last.target].ready

\* C18: Cluster.spawn with a timeout that is zero, negative or infinite returns
\* the child itself at once: no promise that waits for readiness, and so no
\* CLUSTER_READY_TIMEOUT.
C18_NonPositiveTimeoutNoWait ==
  (/\ last.op = "spawn" /\ ~last.thrown
   /\ (last.timeout <= 0 \/ last.timeout = TimeoutInfinity)) =>
    /\ last.promise = 0
    /\ last.val # 0

\* C19: eval / fetchClientValue on a worker without a child return a promise
\* rejected with CLUSTER_NO_CHILD_EXISTS, send no message and add nothing to
\* the tables of pending calls.
C19_NoChildRejects ==
  [][(Len(calls') = Len(calls) + 1 /\ clusters[calls'[Len(calls')].cluster].child = 0) =>
       LET call == calls'[Len(calls')]
       IN  /\ call.promise = Len(promises) + 1
           /\ promises'[call.promise].state = "rejected"
           /\ promises'[call.promise].err = "CLUSTER_NO_CHILD_EXISTS"
           /\ ~call.sent
           /\ children' = children
           /\ clusters' = clusters
    ]_vars

\* a call made on a killed worker, and one made on a worker whose child exited
\* with clusterRespawn false
C19_Witness ==
  \E j \in 1..Len(calls) :
    /\ calls[j].child = 0
    /\ promises[calls[j].promise].err = "CLUSTER_NO_CHILD_EXISTS"
    /\ clusters[calls[j].cluster].deaths = 1

\* the step in which child ch takes the request at the head of its inbox
Handled(ch) ==
  children[ch].inb # <<>> /\ children'[ch].inb = Tail(children[ch].inb)

Branch(m) ==
  IF m.nil THEN "message"
  ELSE IF "_ready" \in m.tags THEN "_ready"
  ELSE IF "_disconnect" \in m.tags THEN "_disconnect"
  ELSE IF "_reconnecting" \in m.tags THEN "_reconnecting"
  ELSE IF "_sFetchProp" \in m.tags THEN "_sFetchProp"
  ELSE IF "_sEval" \in m.tags THEN "_sEval"
  ELSE IF "_sRespawnAll" \in m.tags THEN "_sRespawnAll"
  ELSE "message"

\* the step in which the parent takes the message at the head of the queue of ch
Received(ch) == children[ch].out # <<>> /\ children'[ch].out = Tail(children[ch].out)

\* the requests that the step took
NewResponds ==
  {p \in 1..Len(promises') : p > Len(promises) /\ promises'[p].kind = "respond"}

\* C21: _handleMessage handles a message by exactly one branch, in the order
\* ready, disconnect, reconnecting, property fetch, eval broadcast, respawn
\* all, generic: a signal sets `ready` and emits its event, a message with
\* several tags is handled by the first of them only, and a message with none
\* of them (or no message) only emits `message`.
C21_OneBranchByPrecedence ==
  [][\A ch \in ChildIds : Received(ch) =>
       LET m == Head(children[ch].out)
           c == children[ch].owner
           b == Branch(m)
           signal == b \in {"_ready", "_disconnect", "_reconnecting"}
       IN  /\ emitted'.msg = <<m>>
           /\ b = "_ready" =>
                clusters'[c].ready /\ emitted'.events = <<<<c, "ready">>>>
           /\ b = "_disconnect" =>
                ~clusters'[c].ready /\ emitted'.events = <<<<c, "disconnect">>>>
           /\ b = "_reconnecting" =>
                ~clusters'[c].ready /\ emitted'.events = <<<<c, "reconnecting">>>>
           /\ b = "message" =>
                /\ emitted'.events = <<<<c, "message">>>>
                /\ clusters' = clusters /\ promises' = promises
                /\ ras' = ras /\ rs' = rs
                /\ children' = [children EXCEPT ![ch].out = Tail(@)]
           /\ (signal \/ b = "message") =>
                Len(promises') = Len(promises) /\ ras' = ras /\ Len(children') = Len(children)
           /\ b \in {"_sFetchProp", "_sEval"} => clusters'[c].ready = clusters[c].ready
           /\ b \in {"_sFetchProp", "_sEval", "_sRespawnAll"} =>
                \A i \in 1..Len(emitted'.events) :
                  emitted'.events[i][2] \in {"death", "spawn"}
           /\ b \in {"_sFetchProp", "_sEval"} =>
                /\ Cardinality(NewResponds) = 1
                /\ \A p \in NewResponds : promises'[p].tag = b /\ promises'[p].cluster = c
                /\ ras' = ras
           /\ b = "_sRespawnAll" => Len(ras') = Len(ras) + 1 /\ NewResponds = {}
    ]_vars

\* a message that carried both _ready and _disconnect was handled as ready
C21_Witness ==
  /\ emitted.msg # <<>>
  /\ {"_ready", "_disconnect"} \subseteq emitted.msg[1].tags
  /\ emitted.events = <<<<1, "ready">>>>
  /\ clusters[1].ready

\* the calls on single workers that the fan-out promise f waits for
Leaves(f) ==
  IF promises[f].kind = "all"
    THEN {promises[f].parts[i] : i \in 1..Len(promises[f].parts)}
    ELSE {f}

\* the response of request q was written to a child
Answered(q) ==
  /\ promises[q].state = "resolved"
  /\ promises[promises[q].val].child # 0
  /\ ~promises[promises[q].val].failing

\* request q waits for a fan-out that something can still settle: a call of it
\* is pending on a running child, or on a child with a message still to deliver
CanStillAnswer(q) ==
  /\ promises[q].state = "pending"
  /\ \E p \in Leaves(promises[q].parts[1]) :
       /\ promises[p].state = "pending"
       /\ \/ children[promises[p].child].alive
          \/ children[promises[p].child].out # <<>>
          \/ promises[p].failing

\* C22: every _sFetchProp / _sEval request that the parent took from a worker
\* which is still running gets one response with the key and target of the
\* request: it has been sent, or the fan-out it waits for can still settle.
C22_EveryRequestAnswered ==
  \A q \in PromiseIds :
    (/\ promises[q].kind = "respond"
     /\ promises[q].child # 0
     /\ children[promises[q].child].alive
     /\ clusters[promises[q].cluster].child = promises[q].child) =>
      \/ CanStillAnswer(q)
      \/ /\ Answered(q)
         /\ \E ch \in ChildIds :
              /\ children[ch].owner = promises[q].cluster
              /\ promises[promises[q].val].child = ch

\* C23: when the automatic respawn after an exit fails (its spawn rejects with
\* CLUSTER_READY_TIMEOUT, CLUSTER_READY_DIED or CLUSTER_READY_DISCONNECTED), the
\* failure is emitted as an `error` event of the Cluster and no further child
\* is forked for that worker on account of it.
C23_RespawnFailureNotRetried ==
  [][\A p \in PromiseIds :
       (promises[p].auto /\ promises[p].state = "pending"
          /\ promises'[p].state = "rejected") =>
         /\ promises'[p].err \in
              {"CLUSTER_READY_TIMEOUT", "CLUSTER_READY_DIED", "CLUSTER_READY_DISCONNECTED"}
         /\ promises'[p].caught
         /\ clusters'[promises[p].cluster].spawns = clusters[promises[p].cluster].spawns
         /\ Len(children') = Len(children)
    ]_vars

\* ClusterManager.spawn was called with `cl` clusters and `sh` shards
SpawnedWith(cl, sh) ==
  msCalls # <<>> /\ msCalls[1].clusters = cl /\ msCalls[1].shards = sh

\* C24: for shardCount < workerCount, ClusterManager.spawn creates exactly
\* shardCount workers, each with exactly one shard, and totalClusters and the
\* length of clusterList are shardCount.
C24_FewerShardsThanClusters ==
  (msCalls # <<>> /\ msCalls[1].shards < msCalls[1].clusters) =>
    /\ totalClusters = msCalls[1].shards
    /\ ~clusterList.auto /\ Len(clusterList.list) = msCalls[1].shards
    /\ Len(clusters) <= msCalls[1].shards
    /\ \A k \in ClusterIds : Len(clusters[k].shards) = 1
    /\ ms.pc = "resolved" => Len(clusters) = msCalls[1].shards

\* spawn with 3 clusters and 2 shards has resolved, with 2 workers
C24_Witness ==
  /\ SpawnedWith(3, 2)
  /\ ms.pc = "resolved"
  /\ Len(clusters) = 2

\* C25: ClusterManager.spawn with 3 clusters and 4 shards creates three
\* workers, with the shard lists [0,1], [2] and [3] in that order.
C25_ThreeClustersFourShards ==
  (SpawnedWith(3, 4) /\ ms.pc = "resolved") =>
    /\ Len(clusters) = 3
    /\ clusters[1].shards = <<0, 1>>
    /\ clusters[2].shards = <<2>>
    /\ clusters[3].shards = <<3>>

\* C26: ClusterManager.spawn with 2 clusters and 4 shards creates worker 0
\* with the shards [0,1] and worker 1 with the shards [2,3].
C26_TwoClustersFourShards ==
  SpawnedWith(2, 4) =>
    /\ Len(clusters) <= 2
    /\ \A k \in ClusterIds :
         /\ clusters[k].id = ObjectEntriesKey(k - 1)
         /\ clusters[k].shards = <<<<0, 1>>, <<2, 3>>>>[k]
         /\ children[clusters[k].child].env = clusters[k].shards
    /\ ms.pc = "resolved" => Len(clusters) = 2

\* spawn with 2 clusters and 4 shards has resolved after waiting for both workers
C26_Witness ==
  /\ SpawnedWith(2, 4)
  /\ ms.pc = "resolved" /\ ms.timeout = DefaultTimeout
  /\ Len(clusters) = 2 /\ clusters[2].shards = <<2, 3>> /\ clusters[2].ready

\* C27: Cluster.send on a worker without a child, or whose write reports an
\* error, returns a promise that is rejected and never resolved; the promise
\* resolves, with the Cluster, only when the write succeeded.
C27_SendRejectsUnlessWritten ==
  /\ last.op = "send" => (~last.thrown /\ last.promise # 0)
  /\ \A p \in PromiseIds : promises[p].kind = "send" =>
       /\ promises[p].child = 0 => promises[p].state = "rejected"
       /\ promises[p].failing => promises[p].state # "resolved"
       /\ promises[p].state = "resolved" =>
            /\ promises[p].child # 0 /\ ~promises[p].failing
            /\ promises[p].val = promises[p].cluster
       /\ promises[p].state = "rejected" =>
            (promises[p].child = 0 \/ promises[p].failing)

\* a send rejected for want of a child, and one rejected by the write error
C27_Witness ==
  \E p, q \in PromiseIds :
    /\ promises[p].kind = "send" /\ promises[q].kind = "send"
    /\ promises[p].child = 0 /\ promises[p].state = "rejected"
    /\ promises[q].failing /\ promises[q].state = "rejected"
    /\ promises[q].err = "SEND_FAILED"

\* C28: in the worker, loading a module that does not extend Base logs an
\* error, creates no instance, calls no launch and leaves the process
\* running; a module that extends Base is constructed once with
\* { bot, clusterID, ipc } and launched exactly once, and the code is loaded
\* at most once for a client however often it becomes ready.
C28_LoadOnlyConformingCode ==
  [][wk'.loads = wk.loads + 1 =>
       LET app == Required(wk.module)
           n == Len(wk'.apps)
       IN  /\ wk'.running = wk.running
           /\ \A b \in 1..Len(wk'.bots) : wk'.bots[b].loads <= 1
           /\ app = "base" =>
                /\ n = Len(wk.apps) + 1
                /\ SubSeq(wk'.apps, 1, n - 1) = wk.apps
                /\ wk'.apps[n].launches = 1
                /\ wk'.apps[n].ipc
                /\ wk'.apps[n].clusterID = wk'.clusterID
                /\ wk'.apps[n].bot \in 1..Len(wk'.bots)
                /\ wk'.bots[wk'.apps[n].bot].loads = 1
                /\ wk'.app = n
                /\ wk'.errors = wk.errors
           /\ app # "base" =>
                /\ wk'.apps = wk.apps
                /\ wk'.app = wk.app
                /\ wk'.errors = wk.errors + 1
    ]_vars

\* a module whose default export is not a class extending Base was loaded for
\* a client that became ready twice: one error, no instance, still running
C28_Witness ==
  /\ wk.module.default = "class" /\ wk.module.own = "base"
  /\ wk.loads = 1 /\ wk.errors = 1 /\ wk.apps = <<>> /\ wk.app = 0
  /\ wk.running
  /\ \E b \in 1..Len(wk.bots) : wk.bots[b].readies = 2 /\ wk.bots[b].loads = 1

\* C29: in every reachable state a Cluster with ready = true has a child: a
\* readiness message still in flight from a child that was killed or has
\* exited cannot set ready while the worker has no child.
C29_ReadyImpliesChild ==
  \A c \in ClusterIds : clusters[c].ready => clusters[c].child # 0

\* C30: during Cluster.respawn the pending result of the new spawn is settled
\* only by the new child: a ready or disconnect message, or the exit, of the
\* previous, killed child never settles it.
C30_OldChildNeverSettlesNewSpawn ==
  [][\A ch \in ChildIds :
       (/\ ~children[ch].alive /\ ~children[ch].exitL
        /\ \/ Received(ch)
           \/ ~children[ch].exited /\ children'[ch].exited) =>
         \A p \in PromiseIds :
           (/\ promises[p].kind = "spawn"
            /\ promises[p].cluster = children[ch].owner
            /\ promises[p].child # ch
            /\ promises[p].state = "pending") =>
             promises'[p].state = "pending"
    ]_vars

\* C31: for each worker and each key at most one request is in flight to the
\* current child: every pending eval / fetchClientValue call that was issued to
\* the worker's current child keeps its entry in the pending table (a late
\* response or a late write failure of a call issued to a previous child does
\* not remove it), and no two pending calls with the same key were issued to
\* the current child.
C31_CurrentCallKeepsEntry ==
  \A p \in PromiseIds :
    (/\ promises[p].kind \in {"eval", "fetch"}
     /\ promises[p].state = "pending"
     /\ promises[p].child # 0
     /\ clusters[promises[p].cluster].child = promises[p].child) =>
      /\ <<promises[p].key, p>> \in Table(World, promises[p].cluster, promises[p].kind)
      /\ \A q \in PromiseIds :
           (/\ promises[q].kind = promises[p].kind
            /\ promises[q].state = "pending"
            /\ promises[q].cluster = promises[p].cluster
            /\ promises[q].child = promises[p].child
            /\ promises[q].key = promises[p].key) => q = p

\* C32: Cluster.respawn brings back a worker that has no child (its child
\* exited with clusterRespawn false, or another respawn is in its delay): the
\* call does not fail on the missing child but goes on to spawn, and
\* respawnAll is not rejected because a worker was already dead.
C32_RespawnRevivesDeadWorker ==
  /\ \A r \in 1..Len(rs) : ~(rs[r].pc = "failed" /\ rs[r].err = "TypeError")
  /\ \A a \in 1..Len(ras) : ~(ras[a].pc = "rejected" /\ ras[a].err = "TypeError")

\* the workers that the running spawn loop has still to create
ForksToCome == IF ms.pc = "await" THEN Len(ms.chunks) - Len(clusters) ELSE 0

\* the exit of child ch; an exit that makes _handleExit fork again is taken
\* only while forks remain for the workers still to come
ChildExitSpared(ch) ==
  /\ (clusterRespawn /\ children[ch].exitL) => Len(children) + ForksToCome < MaxForks
  /\ ChildExit(ch)

\* the pool spawned with a finite ready timeout, for as long as the call of
\* spawn has not settled
NextSettle ==
  \/ \E cl \in 1..MaxClusters, d \in {0, DefaultSpawnDelay} :
       msCalls = <<>> /\ ManagerSpawn(cl, MaxShards, d, DefaultTimeout)
  \/ SpawnDelayElapsed
  \/ \E p \in PromiseIds : ms.pc = "await" /\ ReadyTimeout(p)
  \/ \E ch \in ChildIds, tag \in {"_ready", "_disconnect"} :
       ms.pc = "await" /\ ChildEmit(ch, tag)
  \/ \E ch \in ChildIds : ms.pc = "await" /\ Deliver(ch)
  \/ \E ch \in ChildIds : ms.pc = "await" /\ ChildExitSpared(ch)

\* a timer that is armed fires: setTimeout of the ready timeout and of
\* Util.delayFor; nothing is assumed about messages and exits
SpecSettle ==
  /\ Init /\ [][NextSettle]_vars
  /\ WF_vars(SpawnDelayElapsed)
  /\ WF_vars(\E p \in PromiseIds : ms.pc = "await" /\ ReadyTimeout(p))

\* C33: with a finite ready timeout ClusterManager.spawn eventually settles;
\* resolved, the pool holds every worker of the partition and as many workers
\* as clusterList names (so that a fan-out is not refused with
\* CLUSTER_IN_PROCESS), each with a resolved spawn; rejected, it carries the
\* error of the first spawn that failed, which is the last one started.
C33_SpawnEventuallySettles ==
  /\ [](ms.pc = "resolved" =>
          /\ msCalls[ms.call].state = "resolved"
          /\ Len(clusters) = Len(ms.chunks)
          /\ Len(clusters) = ListLength(clusterList)
          /\ \A k \in ClusterIds : promises[ms.ps[k]].state = "resolved")
  /\ [](ms.pc = "rejected" =>
          /\ msCalls[ms.call].state = "rejected"
          /\ promises[ms.ps[Len(ms.ps)]].state = "rejected"
          /\ msCalls[ms.call].err = promises[ms.ps[Len(ms.ps)]].err
          /\ \A k \in 1..(Len(ms.ps) - 1) : promises[ms.ps[k]].state = "resolved")
  /\ (ms.pc = "await") ~> (ms.pc \in {"resolved", "rejected"})

\* a spawn over two workers that resolved although a child had exited and
\* was forked again on the way
C33_Witness ==
  /\ ms.pc = "resolved" /\ Len(clusters) = 2
  /\ Len(children) > 2

\* C34: on the exit of a child that was not killed the Cluster emits death,
\* clears ready, the child handle and both pending-call tables, and forks a
\* new child exactly when clusterRespawn is true; kill does the same and
\* forks nothing, and the later exit of the killed child changes nothing. With
\* clusterRespawn false no exit creates a child.
C34_ExitClearsAndRespawnsByPolicy ==
  [][\A ch \in ChildIds :
       LET c == children[ch].owner
           cleared == /\ clusters'[c].deaths = clusters[c].deaths + 1
                      /\ ~clusters'[c].ready
                      /\ clusters'[c].evals = {} /\ clusters'[c].fetches = {}
           forked == /\ Len(children') = Len(children) + 1
                     /\ children'[Len(children')].owner = c
                     /\ clusters'[c].child = Len(children')
                     /\ clusters'[c].spawns = clusters[c].spawns + 1
           noFork == Len(children') = Len(children) /\ clusters'[c].spawns = clusters[c].spawns
       IN  /\ (~children[ch].exited /\ children'[ch].exited /\ children[ch].alive) =>
                /\ cleared
                /\ IF clusterRespawn THEN forked ELSE noFork /\ clusters'[c].child = 0
           /\ (~children[ch].exited /\ children'[ch].exited /\ ~children[ch].alive) =>
                noFork /\ clusters'[c] = clusters[c]
           /\ (children[ch].alive /\ ~children'[ch].alive /\ ~children'[ch].exited) =>
                cleared /\ noFork /\ clusters'[c].child = 0
    ]_vars

\* clusterRespawn false: the child answered nothing before it exited on its
\* own; the tables that held the pending calls are empty and no child was forked
C34_Witness ==
  /\ ~clusterRespawn
  /\ Len(children) = 1 /\ children[1].exited /\ children[1].exitL
  /\ \E j \in 1..Len(calls) : calls[j].sent /\ promises[calls[j].promise].state = "pending"
  /\ clusters[1].child = 0 /\ clusters[1].deaths = 1
  /\ clusters[1].evals = {} /\ clusters[1].fetches = {}

\* one worker, the scripts evaluated on it, given as strings and as functions,
\* and the property paths fetched from it
NextScript ==
  \/ msCalls = <<>> /\ ManagerSpawn(1, MaxShards, 0, NoWait)
  \/ \E c \in ClusterIds, script \in Keys \cup Functions : Call(c, "eval", script, TRUE)
  \/ \E c \in ClusterIds, prop \in Props : Call(c, "fetch", prop, TRUE)
  \/ \E ch \in ChildIds, err \in BOOLEAN : ChildHandle(ch, err)
  \/ \E ch \in ChildIds : Deliver(ch)

SpecScript == InitPerform /\ [][NextScript]_vars

\* C35: when the child answers an eval request with a response tagged with
\* the script text it received, the call that sent the request (the script a
\* string, or a function sent as `(fn)(this)`) is settled in that step and its
\* entry leaves the table.
C35_EvalAnswerSettlesCall ==
  [][\A ch \in ChildIds : \A p \in PromiseIds :
       (/\ Delivered(ch, "_eval")
        /\ promises[p].kind = "eval" /\ promises[p].state = "pending"
        /\ promises[p].child = ch
        /\ Head(children[ch].out).key = EvalText(promises[p].key)) =>
         /\ promises'[p].state # "pending"
         /\ ~MapHas(clusters'[promises[p].cluster].evals, promises[p].key)
    ]_vars

\* C36: a live worker that takes a { _fetchProp: path } request sends back
\* exactly one response tagged with the same path, also when the path does
\* not resolve on the client.
C36_FetchRequestAnswered ==
  [][\A ch \in ChildIds :
       (/\ children[ch].inb # <<>>
        /\ "_fetchProp" \in Head(children[ch].inb).tags
        /\ children'[ch].alive
        /\ children'[ch].inb = Tail(children[ch].inb)) =>
         /\ Len(children'[ch].out) = Len(children[ch].out) + 1
         /\ children'[ch].out[Len(children'[ch].out)].tags = {"_fetchProp"}
         /\ children'[ch].out[Len(children'[ch].out)].key = Head(children[ch].inb).key
    ]_vars

\* C37: once spawn has partitioned the shards, manager.shardList still is the
\* sequence 0 .. totalShards - 1, and every worker holds the chunk it was
\* created with, whatever was killed, exited or respawned since.
C37_SpawnKeepsShardList ==
  clusters # <<>> =>
    /\ shardList = Listed(ArrayKeys(totalShards))
    /\ \A c \in 1..Len(clusters) : clusters[c].shards = ms.chunks[c]

\* the two loops with their delays: spawn of the pool, then respawnAll
NextDelay ==
  \/ \E cl \in 1..MaxClusters, d \in {0, DefaultSpawnDelay}, t \in {NoWait, DefaultTimeout} :
       msCalls = <<>> /\ ManagerSpawn(cl, MaxShards, d, t)
  \/ SpawnDelayElapsed
  \/ \E sd \in {0, DefaultShardDelay}, d \in {0, DefaultRespawnDelay},
        t \in {NoWait, DefaultTimeout} :
       ras = <<>> /\ ms.pc = "resolved" /\ RespawnAll(sd, d, t)
  \/ \E r \in 1..Len(rs) : RespawnDelayElapsed(r)
  \/ \E a \in 1..Len(ras) : ShardDelayElapsed(a)
  \/ \E ch \in ChildIds : ChildEmit(ch, "_ready")
  \/ \E ch \in ChildIds : Deliver(ch)
  \/ \E p \in PromiseIds : ReadyTimeout(p)

SpecDelay == InitPerform /\ [][NextDelay]_vars

\* the delays a loop over n workers has started once it has reached worker k
DelaysStarted(delay, k, n) ==
  IF delay > 0 THEN (IF k < n - 1 THEN k ELSE n - 1) ELSE 0

\* C38: spawn and respawnAll start their delay after every worker but the
\* last, n - 1 delays for n workers when the delay is positive, and the call
\* settles in the step in which the last worker's spawn or respawn settles.
C38_DelayAfterAllButLast ==
  /\ ms.pc # "idle" =>
       /\ ms.delays = DelaysStarted(ms.delay, Len(ms.ps), Len(ms.chunks))
       /\ ms.pc = "resolved" => Len(ms.ps) = Len(ms.chunks)
       /\ ~(/\ ms.pc = "await"
            /\ Len(ms.ps) = Len(ms.chunks)
            /\ AwaitState(World, ms.awaitP) # "pending")
  /\ \A a \in 1..Len(ras) :
       /\ ras[a].delays = DelaysStarted(ras[a].shardDelay, ras[a].s, Len(clusters))
       /\ ras[a].pc = "resolved" => ras[a].s = Len(clusters)
       /\ ~(/\ ras[a].pc = "await"
            /\ ras[a].s = Len(clusters)
            /\ RsState(World, ras[a].cur) # "pending")

\* spawn of two workers has resolved with one delay, and respawnAll has
\* reached the second of them with one delay started
C38_Witness ==
  /\ ms.pc = "resolved" /\ ms.delay > 0 /\ Len(ms.chunks) = 2 /\ ms.delays = 1
  /\ \E a \in 1..Len(ras) :
       ras[a].shardDelay > 0 /\ ras[a].s = 2 /\ ras[a].delays = 1 /\ ~ras[a].delayPending

\* the pool and the requests of its workers to respawn all of it
NextRequest ==
  \/ \E cl \in 1..MaxClusters : msCalls = <<>> /\ ManagerSpawn(cl, MaxShards, 0, NoWait)
  \/ \E ch \in ChildIds, sd \in {0, DefaultShardDelay}, d \in {0, DefaultRespawnDelay},
        t \in {NoWait, DefaultTimeout} :
       ChildRequestRespawnAll(ch, sd, d, t)
  \/ \E ch \in ChildIds : Deliver(ch)
  \/ \E ch \in ChildIds : ChildEmit(ch, "_ready")
  \/ \E ch \in ChildIds : ChildExit(ch)
  \/ \E p \in PromiseIds : ReadyTimeout(p)
  \/ \E r \in 1..Len(rs) : RespawnDelayElapsed(r)
  \/ \E a \in 1..Len(ras) : ShardDelayElapsed(a)

SpecRequest == Init /\ [][NextRequest]_vars

\* C39: a { _sRespawnAll } request of a worker starts respawnAll with the
\* shardDelay, respawnDelay and timeout the request carries; the requesting
\* worker is sent no response, also when the respawn fails.
C39_RequestRespawnsWithItsOptions ==
  [][\A ch \in ChildIds :
       Delivered(ch, "_sRespawnAll") =>
         /\ Len(ras') = Len(ras) + 1
         /\ ras'[Len(ras')].shardDelay = Head(children[ch].out).shardDelay
         /\ ras'[Len(ras')].delay = Head(children[ch].out).respawnDelay
         /\ ras'[Len(ras')].timeout = Head(children[ch].out).timeout
         /\ children'[ch].inb = children[ch].inb
    ]_vars

====
